---------------------------- MODULE Spec2Model ----------------------------
(***************************************************************************)
(* Model of the selection / transform / undo core of the 3D viewer.        *)
(*                                                                         *)
(* src/src/core/selectionManager.js holds two revisions of the class       *)
(* SelectionManager: revision "A" (lines 5-257, list clicks with a range    *)
(* modifier, private #selectMesh / #getRangeBetween) and revision "B"      *)
(* (lines 263-506, unified selectMeshes, selectAll).  The variable         *)
(* `revision` says which of the two class bodies an instance runs; the     *)
(* methods that are textually identical in both are modelled once.         *)
(*                                                                         *)
(* Meshes are identified by their uuid (three.js gives every Object3D a    *)
(* fresh uuid), so a mesh and its uuid are the same model value.           *)
(***************************************************************************)
EXTENDS Integers, Sequences, FiniteSets, TLC

\* ------------------------------------------------------------------ bounds
NMesh == 3

Null == 0
Meshes == 1 .. NMesh
\* Scene objects: the meshes themselves and, per mesh, one child node
\* (a hit-test may return a descendant of a registered mesh).
Children == (NMesh + 1) .. (2 * NMesh)
Objects == Meshes \cup Children
Parent(o) == IF o \in Children THEN o - NMesh ELSE Null

VARIABLES
    revision,        \* "A" | "B": which class body of selectionManager.js
    meshMap,         \* Map<uuid, {mesh, li}>: the keys in insertion order
    selectedMeshes,  \* Set<Object3D>
    lastSelectedId,  \* uuid | null
    liSelected,      \* registered rows whose <li> carries class 'selected'
    dispatched,      \* events dispatched during the last call, in order
    lastCall,        \* the last call: [op, arg, flag]
    tm,              \* the TransformManager: its fields, anchor and gizmo
    um,              \* the UndoManager: [stack, limit]
    pose,            \* per mesh: [p: position, r: quaternion, s: scale]
    orbitEnabled,    \* sceneManager.controls.enabled
    emitted,         \* TransformManager events of the last handler, in order
    client,          \* a caller of the UndoManager: the snapshot it holds
    history,         \* the last handler, the moves made, the last drag start
    im,              \* the ImportManager, the scene and the panel it feeds
    jobs,            \* the importModel calls made so far, in call order
    material,        \* the material (or array of materials) being prepared
    geometry,        \* the BufferGeometry being prepared
    built,           \* the last private call of the ImportManager and its result
    ui               \* the Inspector, and the variables and timers of main.js

selVars == <<revision, meshMap, selectedMeshes, lastSelectedId, liSelected, dispatched, lastCall>>

xfVars == <<tm, um, pose, orbitEnabled, emitted, client, history>>

imVars == <<im, jobs, material, geometry, built>>

vars == <<selVars, xfVars, imVars, ui>>

\* ------------------------------------------------------------- sequences
Range(seq) == {seq[i] : i \in 1 .. Len(seq)}

\* Array.prototype.indexOf: 0 stands for -1, positions are 1-based.
IndexOf(seq, x) == IF x \in Range(seq) THEN CHOOSE i \in 1 .. Len(seq) : seq[i] = x ELSE 0

Remove(seq, x) == SelectSeq(seq, LAMBDA y : y # x)

\* The arrays handed to setSelection / selectMeshes: empty, one mesh, two meshes.
MeshArrays == {<<>>} \cup {<<a>> : a \in Meshes} \cup {<<a, b>> : a, b \in Meshes}

\* ------------------------------------------------- SelectionManager state
\* The object `this` of a SelectionManager call, with the events the call
\* has dispatched so far.
This == [meshMap |-> meshMap, selectedMeshes |-> selectedMeshes, lastSelectedId |-> lastSelectedId, liSelected |-> liSelected, events |-> <<>>]

has(s, uuid) == uuid \in Range(s.meshMap)

getSelectionState(s) == [selectedMeshes |-> s.selectedMeshes]

dispatchSelectionChange(s) == [s EXCEPT !.events = Append(@, [type |-> "selectionchange", detail |-> getSelectionState(s)])]

updateListHighlight(s) == [s EXCEPT !.liSelected = {u \in Range(s.meshMap) : u \in s.selectedMeshes}]

\* Mutant: a registered mesh becomes the selection.
registerMeshSelects(s, mesh) ==
    dispatchSelectionChange(updateListHighlight(
        [s EXCEPT !.meshMap = IF mesh \in Range(@) THEN @ ELSE Append(@, mesh),
                  !.selectedMeshes = {mesh}, !.lastSelectedId = mesh]))

registerMesh(s, mesh) ==
    updateListHighlight([s EXCEPT !.meshMap = IF mesh \in Range(@) THEN @ ELSE Append(@, mesh)])

\* Mutant: the deleted record's mesh is not evicted from the selection.
unregisterMeshKeepsSelected(s, uuid) ==
    IF ~has(s, uuid) THEN s
    ELSE LET s1 == [s EXCEPT !.meshMap = Remove(@, uuid)]
             s2 == updateListHighlight(s1)
             s3 == [s2 EXCEPT !.lastSelectedId = IF @ = uuid THEN Null ELSE @]
         IN dispatchSelectionChange(s3)

unregisterMesh(s, uuid) ==
    IF ~has(s, uuid) THEN s
    ELSE LET s1 == [s EXCEPT !.meshMap = Remove(@, uuid), !.selectedMeshes = @ \ {uuid}]
             s2 == updateListHighlight(s1)
             s3 == [s2 EXCEPT !.lastSelectedId = IF @ = uuid THEN Null ELSE @]
         IN dispatchSelectionChange(s3)

RECURSIVE findRegisteredMeshPrivate(_, _)
findRegisteredMeshPrivate(s, current) ==
    IF current = Null THEN Null
    ELSE IF has(s, current) THEN current
    ELSE findRegisteredMeshPrivate(s, Parent(current))

findRegisteredMesh(s, object) == IF object # Null THEN findRegisteredMeshPrivate(s, object) ELSE Null

\* Mutant: the event is suppressed when the membership does not change.
applySelectionIfChanged(s, newSelection) ==
    IF newSelection = s.selectedMeshes THEN s
    ELSE dispatchSelectionChange(updateListHighlight([s EXCEPT !.selectedMeshes = newSelection]))

applySelection(s, newSelection) ==
    dispatchSelectionChange(updateListHighlight([s EXCEPT !.selectedMeshes = newSelection]))

\* Mutant: the selection is cleared without notifying.
clearSelectionSilent(s) ==
    IF s.selectedMeshes = {} THEN s
    ELSE updateListHighlight([s EXCEPT !.selectedMeshes = {}, !.lastSelectedId = Null])

clearSelection(s) ==
    IF s.selectedMeshes = {} THEN s
    ELSE dispatchSelectionChange(updateListHighlight([s EXCEPT !.selectedMeshes = {}, !.lastSelectedId = Null]))

removeFromSelection(s, mesh) ==
    IF mesh \in s.selectedMeshes
    THEN dispatchSelectionChange(updateListHighlight([s EXCEPT !.selectedMeshes = @ \ {mesh}]))
    ELSE s

setSelection(s, meshes, additive) ==
    LET base == IF additive THEN s.selectedMeshes ELSE {}
        newSelection == base \cup {m \in Range(meshes) : has(s, m)}
        s1 == applySelection(s, newSelection)
    IN IF Len(meshes) > 0 THEN [s1 EXCEPT !.lastSelectedId = meshes[Len(meshes)]] ELSE s1

\* -- revision A only
selectMesh(s, mesh, additive) ==
    LET nextSelection == IF additive THEN s.selectedMeshes \cup {mesh} ELSE {mesh}
    IN [applySelection(s, nextSelection) EXCEPT !.lastSelectedId = mesh]

\* Mutant: the two indices are not put in order before slicing.
getRangeBetweenForward(s, startId, endId) ==
    LET keys == s.meshMap
        startIndex == IndexOf(keys, startId)
        endIndex == IndexOf(keys, endId)
    IN IF startIndex = 0 \/ endIndex = 0 THEN <<>>
       ELSE SubSeq(keys, startIndex, endIndex)

getRangeBetween(s, startId, endId) ==
    LET keys == s.meshMap
        startIndex == IndexOf(keys, startId)
        endIndex == IndexOf(keys, endId)
        from == IF startIndex <= endIndex THEN startIndex ELSE endIndex
        to == IF startIndex <= endIndex THEN endIndex ELSE startIndex
    IN IF startIndex = 0 \/ endIndex = 0 THEN <<>>
       ELSE SubSeq(keys, from, to)

selectFromSceneA(s, object, additive) ==
    LET mesh == IF object # Null THEN findRegisteredMeshPrivate(s, object) ELSE Null
    IN IF mesh = Null
       THEN (IF ~additive THEN clearSelection(s) ELSE s)
       ELSE selectMesh(s, mesh, additive)

selectFromListA(s, uuid, withShift) ==
    IF ~has(s, uuid) THEN s
    ELSE LET range == getRangeBetween(s, s.lastSelectedId, uuid)
         IN IF withShift /\ s.lastSelectedId # Null /\ Len(range) > 0
            THEN setSelection(s, range, TRUE)
            ELSE selectMesh(s, uuid, withShift)

\* -- revision B only
\* Mutant: the additive flag is ignored, the selection is always replaced.
selectMeshesReplace(s, meshes, additive) ==
    IF Len(meshes) = 0
    THEN (IF ~additive THEN clearSelection(s) ELSE s)
    ELSE LET nextSelection == {m \in Range(meshes) : has(s, m)}
             last == meshes[Len(meshes)]
         IN IF nextSelection = {}
            THEN (IF ~additive THEN clearSelection(s) ELSE s)
            ELSE LET s1 == applySelection(s, nextSelection)
                 IN IF has(s1, last) THEN [s1 EXCEPT !.lastSelectedId = last] ELSE s1

selectMeshes(s, meshes, additive) ==
    IF Len(meshes) = 0
    THEN (IF ~additive THEN clearSelection(s) ELSE s)
    ELSE LET base == IF additive THEN s.selectedMeshes ELSE {}
             nextSelection == base \cup {m \in Range(meshes) : has(s, m)}
             last == meshes[Len(meshes)]
         IN IF nextSelection = {}
            THEN (IF ~additive THEN clearSelection(s) ELSE s)
            ELSE LET s1 == applySelection(s, nextSelection)
                 IN IF has(s1, last) THEN [s1 EXCEPT !.lastSelectedId = last] ELSE s1

selectFromSceneB(s, object, additive) ==
    LET mesh == findRegisteredMesh(s, object)
    IN selectMeshes(s, IF mesh # Null THEN <<mesh>> ELSE <<>>, additive)

selectFromListB(s, uuid, withCtrl) ==
    LET mesh == IF has(s, uuid) THEN uuid ELSE Null
    IN selectMeshes(s, IF mesh # Null THEN <<mesh>> ELSE <<>>, withCtrl)

selectAll(s) ==
    LET meshes == s.meshMap
    IN IF Len(meshes) = 0 THEN clearSelection(s) ELSE setSelection(s, meshes, FALSE)

\* ----------------------------------------------------------------- calls
\* One call of a public method: the fields of `this` after the call, the
\* events it dispatched, and a record of the call itself.
Returns(s, op, arg, flag) ==
    /\ meshMap' = s.meshMap
    /\ selectedMeshes' = s.selectedMeshes
    /\ lastSelectedId' = s.lastSelectedId
    /\ liSelected' = s.liSelected
    /\ dispatched' = s.events
    /\ lastCall' = [op |-> op, arg |-> arg, flag |-> flag]
    /\ UNCHANGED <<revision, xfVars, imVars, ui>>

RegisterMesh ==
    \E mesh \in Meshes : Returns(registerMesh(This, mesh), "registerMesh", mesh, FALSE)

UnregisterMesh ==
    \E uuid \in Meshes : Returns(unregisterMesh(This, uuid), "unregisterMesh", uuid, FALSE)

SelectFromScene ==
    \E object \in Objects \cup {Null}, additive \in BOOLEAN :
        Returns(IF revision = "A" THEN selectFromSceneA(This, object, additive) ELSE selectFromSceneB(This, object, additive),
                "selectFromScene", object, additive)

SelectFromList ==
    \E uuid \in Meshes, modifier \in BOOLEAN :
        Returns(IF revision = "A" THEN selectFromListA(This, uuid, modifier) ELSE selectFromListB(This, uuid, modifier),
                "selectFromList", uuid, modifier)

SetSelection ==
    \E meshes \in MeshArrays, additive \in BOOLEAN :
        Returns(setSelection(This, meshes, additive), "setSelection", Null, additive)

ClearSelection ==
    Returns(clearSelection(This), "clearSelection", Null, FALSE)

RemoveFromSelection ==
    \E mesh \in Meshes : Returns(removeFromSelection(This, mesh), "removeFromSelection", mesh, FALSE)

SelectMeshes ==
    /\ revision = "B"
    /\ \E meshes \in MeshArrays, additive \in BOOLEAN :
           Returns(selectMeshes(This, meshes, additive), "selectMeshes", Null, additive)

SelectAll ==
    /\ revision = "B"
    /\ Returns(selectAll(This), "selectAll", Null, FALSE)


\* ============================================================ poses
\* Poses are planar: positions and scales in the x-y plane, rotations about
\* the z axis (z = 0, scale.z = 1, quaternion = (0, 0, qz, qw)).  On such
\* poses the 4x4 matrix code of three.js acts on the upper-left 2x2 block
\* and the translation column only.  Numbers are exact: <<p, q, d>> is
\* (p + q * sqrt(2)) / d with d > 0 and gcd(p, q, d) = 1, which holds the
\* rotations by multiples of 45 degrees.
\* A local constant of the source is written
\*     CHOOSE result \in {F(name) : name \in {value}} : TRUE
\* which is F(value) with the value computed once.
Abs(n) == IF n < 0 THEN -n ELSE n

RECURSIVE GCD(_, _)
GCD(a, b) == IF b = 0 THEN a ELSE GCD(b, a % b)

Q(p, q, d) ==
    IF d = 1 THEN <<p, q, 1>> ELSE
    (CHOOSE result \in {IF d < 0 THEN <<-(p \div g), -(q \div g), -(d \div g)>>
        ELSE <<p \div g, q \div g, d \div g>> : g \in {GCD(GCD(Abs(p), Abs(q)), Abs(d))}} : TRUE)

QInt(n) == <<n, 0, 1>>
QZero == QInt(0)
QOne == QInt(1)
\* The sum over the least common denominator.
QAdd(a, b) ==
    IF a[3] = 1 /\ b[3] = 1 THEN <<a[1] + b[1], a[2] + b[2], 1>> ELSE
    (CHOOSE result \in {Q(a[1] * (b[3] \div g) + b[1] * (a[3] \div g),
          a[2] * (b[3] \div g) + b[2] * (a[3] \div g),
          a[3] * (b[3] \div g)) : g \in {GCD(a[3], b[3])}} : TRUE)
QNeg(a) == <<-a[1], -a[2], a[3]>>
QSub(a, b) == QAdd(a, QNeg(b))
\* The product, each numerator first reduced against the other denominator.
QMul(a, b) ==
    IF a[3] = 1 /\ b[3] = 1 THEN <<a[1] * b[1] + 2 * a[2] * b[2], a[1] * b[2] + a[2] * b[1], 1>> ELSE
    (CHOOSE result \in {(CHOOSE result \in {Q(n[1] * n[3] + 2 * n[2] * n[4], n[1] * n[4] + n[2] * n[3],
              (a[3] \div g[2]) * (b[3] \div g[1])) : n \in {<<a[1] \div g[1], a[2] \div g[1], b[1] \div g[2], b[2] \div g[2]>>}} : TRUE) : g \in {<<GCD(GCD(Abs(a[1]), Abs(a[2])), b[3]), GCD(GCD(Abs(b[1]), Abs(b[2])), a[3])>>}} : TRUE)
QInverse(a) ==
    IF a[2] = 0 THEN Q(a[3], 0, a[1])
    ELSE Q(a[3] * a[1], -(a[3] * a[2]), a[1] * a[1] - 2 * a[2] * a[2])
QDiv(a, b) == QMul(a, QInverse(b))

\* Whether p * p > 2 * q * q for p, q >= 0, computed without the squares:
\* for q < p < 2q it is the negation of the same question about
\* (2q - p, p - q), as (2q - p)^2 - 2 (p - q)^2 = 2 q^2 - p^2.
RECURSIVE ExceedsRoot2(_, _)
ExceedsRoot2(p, q) ==
    IF q = 0 THEN p > 0
    ELSE IF p >= 2 * q THEN TRUE
    ELSE IF p <= q THEN FALSE
    ELSE ~ExceedsRoot2(2 * q - p, p - q)

\* The sign of p + q * sqrt(2).
QSign(a) ==
    LET p == a[1]
        q == a[2]
    IN IF p = 0 /\ q = 0 THEN 0
       ELSE IF p >= 0 /\ q >= 0 THEN 1
       ELSE IF p <= 0 /\ q <= 0 THEN -1
       ELSE IF p > 0 THEN (IF ExceedsRoot2(p, -q) THEN 1 ELSE -1)
       ELSE (IF ExceedsRoot2(-p, q) THEN -1 ELSE 1)

QLt(a, b) == QSign(QSub(b, a)) > 0
QAbs(a) == IF QSign(a) < 0 THEN QNeg(a) ELSE a

RECURSIVE SqrtSearch(_, _, _)
SqrtSearch(n, lo, hi) ==
    IF lo > hi THEN -1
    ELSE LET mid == (lo + hi) \div 2
         IN IF mid * mid = n THEN mid
            ELSE IF mid * mid < n THEN SqrtSearch(n, mid + 1, hi)
            ELSE SqrtSearch(n, lo, mid - 1)

\* The integer square root of a perfect square, -1 for any other number.
ISqrt(n) == IF n < 0 THEN -1 ELSE SqrtSearch(n, 0, IF n < 46340 THEN n ELSE 46340)

\* Math.sqrt of a rational p / d whose root is r or r * sqrt(2), r rational.
HasSqrt(a) == a[2] = 0 /\ (ISqrt(a[1] * a[3]) >= 0 \/ ISqrt(2 * a[1] * a[3]) >= 0)
QSqrt(a) ==
    (CHOOSE result \in {IF root >= 0 THEN Q(root, 0, a[3])
        ELSE Q(0, ISqrt(2 * a[1] * a[3]), 2 * a[3]) : root \in {ISqrt(a[1] * a[3])}} : TRUE)

\* Vector2 / Vector3 restricted to the plane.
V(x, y) == <<x, y>>
VAdd(u, v) == <<QAdd(u[1], v[1]), QAdd(u[2], v[2])>>
VScale(u, k) == <<QMul(u[1], k), QMul(u[2], k)>>

\* Matrix4 restricted to the plane: [[a, b, x], [c, d, y], [0, 0, 1]].
MMul(m, n) ==
    [a |-> QAdd(QMul(m.a, n.a), QMul(m.b, n.c)),
     b |-> QAdd(QMul(m.a, n.b), QMul(m.b, n.d)),
     c |-> QAdd(QMul(m.c, n.a), QMul(m.d, n.c)),
     d |-> QAdd(QMul(m.c, n.b), QMul(m.d, n.d)),
     x |-> QAdd(QAdd(QMul(m.a, n.x), QMul(m.b, n.y)), m.x),
     y |-> QAdd(QAdd(QMul(m.c, n.x), QMul(m.d, n.y)), m.y)]

Det(m) == QSub(QMul(m.a, m.d), QMul(m.b, m.c))

\* Matrix4.invert (the determinant is not zero for the poses of the model).
MInvert(m) ==
    (CHOOSE result \in {(CHOOSE result \in {[a |-> i.a, b |-> i.b, c |-> i.c, d |-> i.d,
             x |-> QNeg(QAdd(QMul(i.a, m.x), QMul(i.b, m.y))),
             y |-> QNeg(QAdd(QMul(i.c, m.x), QMul(i.d, m.y)))] : i \in {[a |-> QMul(m.d, detInv), b |-> QMul(QNeg(m.b), detInv),
              c |-> QMul(QNeg(m.c), detInv), d |-> QMul(m.a, detInv)]}} : TRUE) : detInv \in {QInverse(Det(m))}} : TRUE)

\* A pose is [p: position, r: rotation, s: scale].  The rotation <<c, s>>
\* stands for the quaternion (0, 0, qz, qw) through the two numbers the
\* matrix code reads off it: c = 1 - 2 qz^2 and s = 2 qw qz (cos and sin of
\* the angle for a unit quaternion).
\* Matrix4.compose(position, quaternion, scale).
Compose(trs) ==
    [a |-> QMul(trs.r[1], trs.s[1]), b |-> QNeg(QMul(trs.r[2], trs.s[2])),
     c |-> QMul(trs.r[2], trs.s[1]), d |-> QMul(trs.r[1], trs.s[2]),
     x |-> trs.p[1], y |-> trs.p[2]]

ColumnLengthSq(u, v) == QAdd(QMul(u, u), QMul(v, v))

\* Whether Matrix4.decompose of m yields rational scales (the model's gizmo
\* moves are restricted to such matrices).
Representable(m) ==
    (CHOOSE result \in {/\ HasSqrt(lengthSq[1])
        /\ HasSqrt(lengthSq[2])
        /\ lengthSq[1] # QZero
        /\ lengthSq[2] # QZero : lengthSq \in {<<ColumnLengthSq(m.a, m.c), ColumnLengthSq(m.b, m.d)>>}} : TRUE)

\* Quaternion.setFromRotationMatrix on [[m11, m12], [m21, m22]] (m33 = 1):
\* with trace = m11 + m22 + 1 > 0 it sets qw = sqrt(trace + 1) / 2 and
\* qz = (m21 - m12) / (2 sqrt(trace + 1)); otherwise (m11 > m33 and
\* m22 > m33 never hold for normalised columns) qz = sqrt(2 - m11 - m22) / 2
\* and qw = (m21 - m12) / (2 sqrt(2 - m11 - m22)).
SetFromRotationMatrix(m11, m12, m21, m22) ==
    (CHOOSE result \in {IF QLt(QZero, t[1])
        THEN <<QSub(QOne, QDiv(QMul(t[2], t[2]), QMul(QInt(2), QAdd(t[1], QOne)))), QDiv(t[2], QInt(2))>>
        ELSE <<QDiv(t[3], QInt(2)), QDiv(t[2], QInt(2))>> : t \in {<<QAdd(QAdd(m11, m22), QOne), QSub(m21, m12), QAdd(m11, m22)>>}} : TRUE)

\* Matrix4.decompose(position, quaternion, scale): the scales are the
\* column lengths (sx negated for a negative determinant), the quaternion
\* is read off the columns divided by the scales; a sheared matrix m is not
\* reproduced by Compose(Decompose(m)).
Decompose(m) ==
    (CHOOSE result \in {(CHOOSE result \in {(CHOOSE result \in {[p |-> V(m.x, m.y),
                 r |-> SetFromRotationMatrix(QMul(m.a, invS[1]), QMul(m.b, invS[2]),
                                             QMul(m.c, invS[1]), QMul(m.d, invS[2])),
                 s |-> scale] : invS \in {<<QInverse(scale[1]), QInverse(scale[2])>>}} : TRUE) : scale \in {<<IF len[3] THEN QNeg(len[1]) ELSE len[1], len[2]>>}} : TRUE) : len \in {<<QSqrt(ColumnLengthSq(m.a, m.c)), QSqrt(ColumnLengthSq(m.b, m.d)), QLt(Det(m), QZero)>>}} : TRUE)


\* ============================================================ scene
NBody == 2
MaxMoves == 2
SmallLimit == 2
DefaultLimit == 100

\* The meshes of the scene the TransformManager and the UndoManager act on.
Bodies == 1 .. NBody

Modes == {"none", "translate", "rotate", "scale"}

\* A value that may be null or undefined: None, or Some(value), whose
\* value is Some(value)[1].
None == <<>>
Some(value) == <<value>>

Identity == <<QOne, QZero>>
Rot45 == <<Q(0, 1, 2), Q(0, 1, 2)>>
Rot90 == <<QZero, QOne>>

\* Quaternion.premultiply: the rotation r applied after the rotation q.
Premultiply(q, r) ==
    <<QSub(QMul(r[1], q[1]), QMul(r[2], q[2])), QAdd(QMul(r[2], q[1]), QMul(r[1], q[2]))>>

IdentityPose == [p |-> V(QZero, QZero), r |-> Identity, s |-> V(QOne, QOne)]

\* The poses the imported meshes start with.
InitialPose(mesh) ==
    CASE mesh = 1 -> [p |-> V(QZero, QZero), r |-> Identity, s |-> V(QOne, QOne)]
      [] mesh = 2 -> [p |-> V(QInt(2), QZero), r |-> Rot45, s |-> V(QOne, QOne)]
      [] OTHER -> [p |-> V(QZero, QInt(2)), r |-> Rot90, s |-> V(QInt(2), QOne)]

\* The size of geometry.boundingBox of each mesh (centred on its origin).
GeometrySize(mesh) ==
    CASE mesh = 1 -> <<QOne, QOne, QOne>>
      [] mesh = 2 -> <<QInt(2), QOne, QOne>>
      [] OTHER -> <<QOne, QInt(2), QOne>>

\* mesh.matrixWorld after updateMatrixWorld (the meshes are children of the
\* scene, whose matrix is the identity).
matrixWorld(w, mesh) == Compose(w.pose[mesh])

\* The ascending sequence of a set of meshes (the iteration order of a Set
\* that was filled in that order).
RECURSIVE SetToSeq(_)
SetToSeq(S) ==
    IF S = {} THEN <<>>
    ELSE LET top == CHOOSE x \in S : \A y \in S : y <= x
         IN Append(SetToSeq(S \ {top}), top)

\* ------------------------------------------------------------ UndoManager
\* The state the handlers act on: the TransformManager, the UndoManager,
\* the mesh poses, the orbit controls, and the events dispatched so far.
World == [tm |-> tm, um |-> um, pose |-> pose, orbitEnabled |-> orbitEnabled, events |-> <<>>]

RECURSIVE captureSnapshotAll(_, _)
captureSnapshotAll(w, meshes) ==
    IF meshes = <<>> THEN <<>>
    ELSE LET rest == captureSnapshotAll(w, SubSeq(meshes, 1, Len(meshes) - 1))
             mesh == meshes[Len(meshes)]
         IN IF mesh = Null
            THEN rest
            ELSE Append(rest, [mesh |-> mesh, position |-> w.pose[mesh].p,
                               quaternion |-> w.pose[mesh].r, scale |-> w.pose[mesh].s])

RECURSIVE captureSnapshot(_, _)
captureSnapshot(w, meshes) ==
    IF meshes = <<>> THEN <<>>
    ELSE LET rest == captureSnapshot(w, SubSeq(meshes, 1, Len(meshes) - 1))
             mesh == meshes[Len(meshes)]
         IN IF mesh = Null \/ \E i \in 1 .. Len(rest) : rest[i].mesh = mesh
            THEN rest
            ELSE Append(rest, [mesh |-> mesh, position |-> w.pose[mesh].p,
                               quaternion |-> w.pose[mesh].r, scale |-> w.pose[mesh].s])

snapshotChanged(w, snapshot) ==
    \E i \in 1 .. Len(snapshot) :
        \/ w.pose[snapshot[i].mesh].p # snapshot[i].position
        \/ w.pose[snapshot[i].mesh].r # snapshot[i].quaternion
        \/ w.pose[snapshot[i].mesh].s # snapshot[i].scale

\* Array.prototype.shift: it leaves an empty array empty.
shift(stack) == IF stack = <<>> THEN <<>> ELSE Tail(stack)

push(w, snapshot) ==
    [w EXCEPT !.um.stack = Append(IF Len(@) >= w.um.limit THEN shift(@) ELSE @, snapshot)]

commitSnapshotAlways(w, snapshot) ==
    IF snapshot = None \/ snapshot = Some(<<>>) THEN w
    ELSE push(w, snapshot[1])

commitSnapshot(w, snapshot) ==
    IF snapshot = None \/ snapshot = Some(<<>>) THEN w
    ELSE IF ~snapshotChanged(w, snapshot[1]) THEN w
    ELSE push(w, snapshot[1])

undoOldest(w) ==
    IF w.um.stack = <<>> THEN w
    ELSE LET snapshot == w.um.stack[1]
             restored(mesh) ==
                 LET e == snapshot[CHOOSE i \in 1 .. Len(snapshot) : snapshot[i].mesh = mesh]
                 IN [p |-> e.position, r |-> e.quaternion, s |-> e.scale]
         IN [w EXCEPT !.um.stack = Tail(@),
                      !.pose = [mesh \in DOMAIN @ |->
                                   IF \E i \in 1 .. Len(snapshot) : snapshot[i].mesh = mesh
                                   THEN restored(mesh) ELSE @[mesh]]]

undo(w) ==
    IF w.um.stack = <<>> THEN w
    ELSE LET snapshot == w.um.stack[Len(w.um.stack)]
             restored(mesh) ==
                 LET e == snapshot[CHOOSE i \in 1 .. Len(snapshot) : snapshot[i].mesh = mesh]
                 IN [p |-> e.position, r |-> e.quaternion, s |-> e.scale]
         IN [w EXCEPT !.um.stack = SubSeq(@, 1, Len(@) - 1),
                      !.pose = [mesh \in DOMAIN @ |->
                                   IF \E i \in 1 .. Len(snapshot) : snapshot[i].mesh = mesh
                                   THEN restored(mesh) ELSE @[mesh]]]

clear(w) == [w EXCEPT !.um.stack = <<>>]

\* ------------------------------------------------------- TransformManager
dispatchEvent(w, event) == [w EXCEPT !.events = Append(@, event)]

getState(w) == [mode |-> w.tm.mode, selection |-> w.tm.currentSelection]

\* TransformControls.attach(anchor) / detach().
attach(w) == [w EXCEPT !.tm.controls.object = "anchor", !.tm.controls.visible = TRUE]
detach(w) == [w EXCEPT !.tm.controls.object = "undefined", !.tm.controls.visible = FALSE]

\* Box3.setFromObject(mesh), getCenter and getSize: the geometry box is
\* centred on the mesh origin, so the world box is centred on the mesh
\* position and spans the absolute row sums of the matrix.
boxCenter(w, mesh) == w.pose[mesh].p
boxSize(w, mesh) ==
    (CHOOSE result \in {<<QAdd(QMul(QAbs(b[1].a), b[2][1]), QMul(QAbs(b[1].b), b[2][2])),
          QAdd(QMul(QAbs(b[1].c), b[2][1]), QMul(QAbs(b[1].d), b[2][2])),
          b[2][3]>> : b \in {<<matrixWorld(w, mesh), GeometrySize(mesh)>>}} : TRUE)

MinWeight == <<1, 0, 1000000>>

\* Math.max(volume, 1e-6).  A rational volume p / d is compared exactly;
\* another volume (p + q * sqrt(2)) / d is compared
\* through 10^4 * (p + q * sqrt(2)) rounded down, which decides the
\* comparison for every volume not within 10^-9 of 10^-6.
maxWithMinWeight(volume) ==
    IF volume[2] = 0 THEN (IF volume[1] >= (volume[3] + 999999) \div 1000000 THEN volume ELSE MinWeight) ELSE
    (CHOOSE result \in {IF scaled >= 21474837 \/ scaled * 100 >= volume[3] THEN volume ELSE MinWeight : scaled \in {10000 * volume[1] + (IF volume[2] >= 0 THEN 14142 ELSE 14143) * volume[2]}} : TRUE)

\* Mutant: the volume is the weight, without the floor.
weightUnfloored(w, mesh) ==
    (CHOOSE result \in {QMul(QMul(size[1], size[2]), size[3]) : size \in {boxSize(w, mesh)}} : TRUE)

weight(w, mesh) ==
    (CHOOSE result \in {maxWithMinWeight(QMul(QMul(size[1], size[2]), size[3])) : size \in {boxSize(w, mesh)}} : TRUE)

RECURSIVE accumulate(_, _)
accumulate(w, meshes) ==
    IF meshes = <<>> THEN [accumulated |-> V(QZero, QZero), totalWeight |-> QZero]
    ELSE (CHOOSE result \in {[accumulated |-> VAdd(t[1].accumulated, VScale(boxCenter(w, t[2]), t[3])),
              totalWeight |-> QAdd(t[1].totalWeight, t[3])] : t \in {<<accumulate(w, SubSeq(meshes, 1, Len(meshes) - 1)), meshes[Len(meshes)],
                weight(w, meshes[Len(meshes)])>>}} : TRUE)

\* Mutant: the anchor keeps the scale and, for several meshes, the
\* orientation a drag left it with.
placeAnchorKeepsScale(w, selection) ==
    IF Cardinality(selection) = 1
    THEN (CHOOSE result \in {[p |-> V(m.x, m.y), r |-> Decompose(m).r, s |-> w.tm.anchor.s] : m \in {matrixWorld(w, CHOOSE x \in selection : TRUE)}} : TRUE)
    ELSE (CHOOSE result \in {[p |-> IF QLt(QZero, sum.totalWeight)
                    THEN VScale(sum.accumulated, QInverse(sum.totalWeight))
                    ELSE V(QZero, QZero),
              r |-> w.tm.anchor.r,
              s |-> w.tm.anchor.s] : sum \in {accumulate(w, SetToSeq(selection))}} : TRUE)

\* The pose updateAnchorFromSelection gives the anchor: the world position
\* and quaternion of a single mesh, the weighted centre of several.
placeAnchor(w, selection) ==
    IF Cardinality(selection) = 1
    THEN (CHOOSE result \in {[p |-> V(m.x, m.y), r |-> Decompose(m).r, s |-> V(QOne, QOne)] : m \in {matrixWorld(w, CHOOSE x \in selection : TRUE)}} : TRUE)
    ELSE (CHOOSE result \in {[p |-> IF QLt(QZero, sum.totalWeight)
                    THEN VScale(sum.accumulated, QInverse(sum.totalWeight))
                    ELSE V(QZero, QZero),
              r |-> Identity,
              s |-> V(QOne, QOne)] : sum \in {accumulate(w, SetToSeq(selection))}} : TRUE)

\* Mutant: the gizmo is shown for every non-empty selection, whatever the mode.
updateAnchorShowsAlways(w, selection) ==
    IF selection = {} THEN detach([w EXCEPT !.tm.currentSelection = selection])
    ELSE attach([w EXCEPT !.tm.currentSelection = selection, !.tm.anchor = placeAnchor(w, selection)])

updateAnchorFromSelection(w, selection) ==
    IF selection = {} THEN detach([w EXCEPT !.tm.currentSelection = selection])
    ELSE (CHOOSE result \in {IF w2.tm.mode # "none" THEN attach(w2) ELSE detach(w2) : w2 \in {[w EXCEPT !.tm.currentSelection = selection, !.tm.anchor = placeAnchor(w, selection)]}} : TRUE)

setMode(w, mode) ==
    LET previousMode == w.tm.mode
        w1 == [w EXCEPT !.tm.mode = mode]
        hasSelection == w.tm.currentSelection # {}
        w2 == IF mode = "none" THEN detach(w1)
              ELSE LET w3 == [w1 EXCEPT !.tm.controls.mode = mode]
                   IN IF hasSelection THEN attach(w3) ELSE detach(w3)
    IN (CHOOSE result \in {IF previousMode # mode THEN dispatchEvent(w4, [type |-> "modechange", mode |-> mode])
           ELSE w4 : w4 \in {IF hasSelection THEN updateAnchorFromSelection(w2, w.tm.currentSelection) ELSE w2}} : TRUE)

cacheRelativeStatesFirstOnly(w) ==
    IF w.tm.currentSelection = {} THEN w
    ELSE (CHOOSE result \in {(CHOOSE result \in {[w EXCEPT !.tm.dragState =
                     Some([anchorMatrix |-> anchorMatrix,
                           meshStates |-> [mesh \in {CHOOSE x \in w.tm.currentSelection :
                                                         \A y \in w.tm.currentSelection : x <= y} |->
                                              MMul(anchorInverse, matrixWorld(w, mesh))]])] : anchorInverse \in {MInvert(anchorMatrix)}} : TRUE) : anchorMatrix \in {Compose(w.tm.anchor)}} : TRUE)

cacheRelativeStates(w) ==
    IF w.tm.currentSelection = {} THEN w
    ELSE (CHOOSE result \in {(CHOOSE result \in {[w EXCEPT !.tm.dragState =
                     Some([anchorMatrix |-> anchorMatrix,
                           meshStates |-> [mesh \in w.tm.currentSelection |->
                                              MMul(anchorInverse, matrixWorld(w, mesh))]])] : anchorInverse \in {MInvert(anchorMatrix)}} : TRUE) : anchorMatrix \in {Compose(w.tm.anchor)}} : TRUE)

applyAnchorTransform(w) ==
    IF w.tm.dragState = None THEN w
    ELSE LET anchorMatrix == Compose(w.tm.anchor)
             meshStates == w.tm.dragState[1].meshStates
         IN [w EXCEPT !.pose = [mesh \in DOMAIN @ |->
                 IF mesh \in DOMAIN meshStates
                 THEN Decompose(MMul(anchorMatrix, meshStates[mesh]))
                 ELSE @[mesh]]]

draggingChangedKeepsState(w, value) ==
    LET w1 == [w EXCEPT !.tm.isDragging = value, !.orbitEnabled = ~value]
        started == cacheRelativeStates([w1 EXCEPT !.tm.pendingUndoSnapshot =
                       Some(captureSnapshot(w1, SetToSeq(w1.tm.currentSelection)))])
        committed == IF w1.tm.pendingUndoSnapshot # None
                     THEN commitSnapshot(w1, w1.tm.pendingUndoSnapshot) ELSE w1
        ended == dispatchEvent([committed EXCEPT !.tm.pendingUndoSnapshot = None],
                               [type |-> "transformcommit", detail |-> getState(committed)])
    IN dispatchEvent(IF value THEN started ELSE ended, [type |-> "draggingchange", dragging |-> value])

\* The 'dragging-changed' listener.
draggingChanged(w, value) ==
    LET w1 == [w EXCEPT !.tm.isDragging = value, !.orbitEnabled = ~value]
        started == cacheRelativeStates([w1 EXCEPT !.tm.pendingUndoSnapshot =
                       Some(captureSnapshot(w1, SetToSeq(w1.tm.currentSelection)))])
        w2 == [w1 EXCEPT !.tm.dragState = None]
        committed == IF w2.tm.pendingUndoSnapshot # None
                     THEN commitSnapshot(w2, w2.tm.pendingUndoSnapshot) ELSE w2
        ended == dispatchEvent([committed EXCEPT !.tm.pendingUndoSnapshot = None],
                               [type |-> "transformcommit", detail |-> getState(committed)])
    IN dispatchEvent(IF value THEN started ELSE ended, [type |-> "draggingchange", dragging |-> value])

\* Mutant: the listener does not test isDragging.
changeWhileIdle(w) ==
    (CHOOSE result \in {dispatchEvent(w1, [type |-> "transformchange", detail |-> getState(w1)]) : w1 \in {applyAnchorTransform(w)}} : TRUE)

\* The 'change' listener.
change(w) ==
    IF ~w.tm.isDragging THEN w
    ELSE (CHOOSE result \in {dispatchEvent(w1, [type |-> "transformchange", detail |-> getState(w1)]) : w1 \in {applyAnchorTransform(w)}} : TRUE)


\* ============================================================ Inspector
\* The text of an input: nothing, or what Number() makes of it, which is
\* NotANumber (written 0/0) for a text such as 'abc'.
Typed(value) == Some(value)
Empty == None
NotANumber == <<0, 0, 0>>
Unreadable == Some(NotANumber)

\* parse of #commitChanges: Number(value), and 0 for what is not finite
\* (Number('') is 0, Number('abc') is NaN).
parse(value) == IF value = Empty \/ value = Unreadable THEN QZero ELSE value[1]

\* Number.prototype.toFixed(digits): the nearest decimal with that many
\* places (halves away from zero).  sqrt(2) is taken as 1.4142, which
\* decides the rounding for every value not within 2 * 10^-5 of a half.
toFixed(number, digits) ==
    (CHOOSE result \in {Typed(Q((IF t[1] < 0 THEN -1 ELSE 1) * ((2 * Abs(t[1]) + t[2]) \div (2 * t[2])), 0,
                                IF digits = 3 THEN 1000 ELSE 100)) :
        t \in {<<10000 * number[1] + 14142 * number[2],
                 (IF digits = 3 THEN 10 ELSE 100) * number[3]>>}} : TRUE)

\* The rotations by k * 45 degrees.
RECURSIVE Turned(_)
Turned(k) == IF k = 0 THEN Identity ELSE Premultiply(Turned(k - 1), Rot45)
Turns == [k \in 0 .. 7 |-> Turned(k)]

\* MathUtils.degToRad into Euler.set(0, 0, z), for the angles that are
\* multiples of 45 degrees, and MathUtils.radToDeg(mesh.rotation.z), which
\* lies in (-180, 180].
IsTurn(degrees) == degrees[2] = 0 /\ degrees[3] = 1 /\ degrees[1] % 45 = 0
rotationOfDegrees(degrees) == Turns[(degrees[1] \div 45) % 8]
IsTurned(r) == \E k \in 0 .. 7 : Turns[k] = r
degreesOfRotation(r) ==
    (CHOOSE result \in {QInt(IF k <= 4 THEN 45 * k ELSE 45 * (k - 8)) : k \in {CHOOSE k \in 0 .. 7 : Turns[k] = r}} : TRUE)

\* The inputs x, y, z for a pose in a mode.  Position z and the rotations
\* about x and y are 0, scale z is 1 in the plane.
inputsOf(trs, mode) ==
    CASE mode = "translate" -> <<toFixed(trs.p[1], 3), toFixed(trs.p[2], 3), toFixed(QZero, 3)>>
      [] mode = "rotate" -> <<toFixed(QZero, 2), toFixed(QZero, 2), toFixed(degreesOfRotation(trs.r), 2)>>
      [] OTHER -> <<toFixed(trs.s[1], 3), toFixed(trs.s[2], 3), toFixed(QOne, 3)>>

\* Math.abs(a - b) < 1e-4
near(a, b) == QLt(QAbs(QSub(a, b)), Q(1, 0, 10000))

\* #syncInputs for several meshes in scale mode: an axis shows the scale of
\* the first mesh when all meshes agree on it, and nothing otherwise.
sharedScale(w, meshes) ==
    <<IF \A mesh \in Range(meshes) : near(w.pose[mesh].s[1], w.pose[meshes[1]].s[1])
      THEN toFixed(w.pose[meshes[1]].s[1], 3) ELSE Empty,
      IF \A mesh \in Range(meshes) : near(w.pose[mesh].s[2], w.pose[meshes[1]].s[2])
      THEN toFixed(w.pose[meshes[1]].s[2], 3) ELSE Empty,
      toFixed(QOne, 3)>>

\* #syncInputs.  isSyncing is true only inside it and no handler runs
\* meanwhile, so the handlers that test it always find it false.
syncInputs(w, inspector) ==
    IF inspector.activeMesh = Null
    THEN (IF inspector.mode = "scale" /\ inspector.currentSelection # {}
          THEN [inspector EXCEPT !.inputs = sharedScale(w, SetToSeq(inspector.currentSelection))]
          ELSE inspector)
    ELSE IF inspector.mode = "none" THEN inspector
    ELSE [inspector EXCEPT !.inputs = inputsOf(w.pose[inspector.activeMesh], inspector.mode)]

\* #getInitialTransform(mesh) on the records of the scene: None is null.
getInitialTransform(scene, mesh) ==
    IF \E k \in DOMAIN scene : scene[k].uuid = mesh
    THEN scene[CHOOSE k \in DOMAIN scene : scene[k].uuid = mesh].userData.initialTransform
    ELSE None

\* Inspector.update(selection, mode)
update(w, scene, inspector, selection, mode) ==
    IF Cardinality(selection) = 1 /\ mode # "none"
    THEN [syncInputs(w, [inspector EXCEPT !.mode = mode, !.currentSelection = selection,
                                          !.activeMesh = CHOOSE mesh \in selection : TRUE])
             EXCEPT !.resetDisabled = (getInitialTransform(scene, CHOOSE mesh \in selection : TRUE) = None)]
    ELSE IF mode = "scale" /\ selection # {}
    THEN [syncInputs(w, [inspector EXCEPT !.mode = mode, !.currentSelection = selection, !.activeMesh = Null])
             EXCEPT !.resetDisabled = TRUE]
    ELSE [inspector EXCEPT !.mode = mode, !.currentSelection = selection, !.activeMesh = Null,
                           !.resetDisabled = TRUE]

\* The meshes #commitChanges acts on.
targetsOf(inspector) ==
    IF inspector.mode = "scale" /\ Cardinality(inspector.currentSelection) > 1
    THEN SetToSeq(inspector.currentSelection)
    ELSE IF inspector.activeMesh # Null THEN <<inspector.activeMesh>> ELSE <<>>

\* The pose #commitChanges gives a target from the parsed inputs.
committedPose(trs, mode, x, y, z) ==
    CASE mode = "translate" -> [trs EXCEPT !.p = V(x, y)]
      [] mode = "rotate" -> [trs EXCEPT !.r = rotationOfDegrees(z)]
      [] mode = "scale" -> [trs EXCEPT !.s = V(x, y)]
      [] OTHER -> trs

\* Mutant: in scale mode only the first target is scaled.
applyInputsToFirst(w, inspector, targets) ==
    [w EXCEPT !.pose = [mesh \in DOMAIN @ |->
        IF mesh = targets[1]
        THEN committedPose(@[mesh], inspector.mode, parse(inspector.inputs[1]), parse(inspector.inputs[2]),
                           parse(inspector.inputs[3]))
        ELSE @[mesh]]]

\* #commitChanges: the inputs written to the targets (translate and rotate
\* act on the active mesh only).
applyInputs(w, inspector, targets) ==
    [w EXCEPT !.pose = [mesh \in DOMAIN @ |->
        IF mesh \in Range(targets) /\ (inspector.mode = "scale" \/ mesh = inspector.activeMesh)
        THEN committedPose(@[mesh], inspector.mode, parse(inspector.inputs[1]), parse(inspector.inputs[2]),
                           parse(inspector.inputs[3]))
        ELSE @[mesh]]]

\* The end of #commitChanges and of #resetTransform: the anchor follows the
\* selection of the SelectionManager, the inputs are synced, and the
\* snapshot taken before the change is committed.
finishEdit(before, after, inspector, targets, selected) ==
    (CHOOSE result \in {[w |-> commitSnapshot(w1, Some(captureSnapshot(before, targets))),
                         inspector |-> syncInputs(w1, inspector)] :
        w1 \in {updateAnchorFromSelection(after, selected)}} : TRUE)

\* #commitChanges
commitChanges(w, inspector, selected) ==
    IF targetsOf(inspector) = <<>> THEN [w |-> w, inspector |-> inspector]
    ELSE finishEdit(w, applyInputs(w, inspector, targetsOf(inspector)), inspector, targetsOf(inspector),
                    selected)

\* #resetTransform
resetTransform(w, scene, inspector, selected) ==
    IF inspector.activeMesh = Null
       \/ getInitialTransform(scene, inspector.activeMesh) = None
    THEN [w |-> w, inspector |-> inspector]
    ELSE finishEdit(w, [w EXCEPT !.pose[inspector.activeMesh] = getInitialTransform(scene, inspector.activeMesh)[1]],
                    inspector, <<inspector.activeMesh>>, selected)

\* The Inspector after its constructor.
NewInspector ==
    [mode |-> "none", activeMesh |-> Null, currentSelection |-> {}, inputs |-> <<Empty, Empty, Empty>>,
     resetDisabled |-> TRUE]

\* main.js before any event: no drag was seen, no pointer is down, no
\* timer is pending; `elapsed` is the time since the last drag ended.
InitInterface ==
    ui = [inspector |-> NewInspector, transformRecentlyActive |-> FALSE, pointerDownPosition |-> None,
          timers |-> <<>>, elapsed |-> None]

\* ------------------------------------------------------------- main.js
\* The delay of the timer that clears transformRecentlyActive (50 ms), in
\* ticks of the clock of the model.
Delay == 2

\* The movement above which a pointer-up is not a click.
ClickSlop == 4

\* The listeners of 'transformchange', 'transformcommit' and
\* 'draggingchange', for the events a TransformManager handler dispatched,
\* in order.  The handlers dispatch after their last change to the meshes,
\* so every listener sees the world w the handler leaves.
RECURSIVE transformListeners(_, _, _, _, _)
transformListeners(desk, w, scene, selected, events) ==
    IF events = <<>> THEN desk
    ELSE transformListeners(
            CASE Head(events).type \in {"transformchange", "transformcommit"} ->
                    [desk EXCEPT !.inspector = update(w, scene, @, selected, w.tm.mode)]
              [] Head(events).type = "draggingchange" ->
                    (IF Head(events).dragging THEN [desk EXCEPT !.transformRecentlyActive = TRUE]
                     ELSE [desk EXCEPT !.timers = Append(@, Delay)])
              [] OTHER -> desk,
            w, scene, selected, Tail(events))

\* The listener of 'selectionchange', for the events a SelectionManager
\* call dispatched, in order: the anchor and the inspector follow the
\* selection of the event.
RECURSIVE selectionListeners(_, _, _)
selectionListeners(page, scene, events) ==
    IF events = <<>> THEN page
    ELSE selectionListeners(
            (CHOOSE result \in {[w |-> w1,
                                 desk |-> [page.desk EXCEPT !.inspector =
                                              update(w1, scene, @, Head(events).detail.selectedMeshes, w1.tm.mode)]] :
                w1 \in {updateAnchorFromSelection(page.w, Head(events).detail.selectedMeshes)}} : TRUE),
            scene, Tail(events))

\* toolbar.bindModeChange: setMode, the anchor, and the inspector.
modeChange(w, scene, desk, selected, mode) ==
    (CHOOSE result \in {[w |-> w1, desk |-> [desk EXCEPT !.inspector = update(w1, scene, @, selected, mode)]] :
        w1 \in {updateAnchorFromSelection(setMode(w, mode), selected)}} : TRUE)

\* The callback of window.setTimeout in the 'draggingchange' listener.
timerFires(desk) == [desk EXCEPT !.transformRecentlyActive = FALSE, !.timers = Tail(@)]

\* One tick of the clock: every pending timer is one tick nearer, and the
\* last drag ended one tick longer ago (counted up to Delay).
tick(desk) ==
    [desk EXCEPT !.timers = [k \in DOMAIN @ |-> IF @[k] > 0 THEN @[k] - 1 ELSE 0],
                 !.elapsed = IF @ = None THEN None ELSE Some(IF @[1] < Delay THEN @[1] + 1 ELSE Delay)]

\* canvas 'pointerdown' with the main button.
pointerDown(desk) == [desk EXCEPT !.pointerDownPosition = Some(0)]

\* Whether canvas 'pointerup' goes on to selectFromScene.
clicks(desk, w, movement) ==
    /\ desk.pointerDownPosition # None
    /\ ~(movement > ClickSlop \/ w.tm.isDragging \/ desk.transformRecentlyActive)

\* The poses of the scene once the meshes are imported.
Imported == [mesh \in Bodies |-> InitialPose(mesh)]

\* The state after `new TransformManager(sceneManager, undoManager)`.
InitTransform ==
    /\ tm = [mode |-> "none", anchor |-> IdentityPose,
             controls |-> [object |-> "undefined", visible |-> FALSE, mode |-> "translate", start |-> None],
             currentSelection |-> {}, isDragging |-> FALSE, dragState |-> None,
             pendingUndoSnapshot |-> None]
    /\ orbitEnabled = TRUE
    /\ emitted = <<>>
    /\ client = [snapshot |-> None, requested |-> <<>>, poseAtCapture |-> None]

\* The same state, with the meshes imported, as a record.
Constructed ==
    [tm |-> [mode |-> "none", anchor |-> IdentityPose,
             controls |-> [object |-> "undefined", visible |-> FALSE, mode |-> "translate", start |-> None],
             currentSelection |-> {}, isDragging |-> FALSE, dragState |-> None,
             pendingUndoSnapshot |-> None],
     um |-> [stack |-> <<>>, limit |-> DefaultLimit],
     pose |-> Imported,
     orbitEnabled |-> TRUE,
     events |-> <<>>]

\* ========================================================== ImportManager
MaxVertices == 3
MaxRanges == 2
MaxSplitVertices == 2

\* ----------------------------------------------------------- typed arrays
\* A typed array is the sequence of its elements: element k of the array is
\* element k + 1 of the sequence.  new ArrayType(length) is filled with 0.
Zeros(length) == [i \in 1 .. length |-> 0]

Min(a, b) == IF a < b THEN a ELSE b
Max(a, b) == IF a < b THEN b ELSE a

\* TypedArray.prototype.subarray(begin, end) for begin, end >= 0: both are
\* clamped to the length of the array.
subarray(array, begin, end) == SubSeq(array, Min(begin, Len(array)) + 1, Min(end, Len(array)))

\* TypedArray.prototype.set(source, offset), source fitting into the target.
set(target, source, offset) ==
    [i \in 1 .. Len(target) |-> IF i > offset /\ i <= offset + Len(source) THEN source[i - offset] ELSE target[i]]

\* ---------------------------------------------------------- BufferGeometry
\* A BufferAttribute is [name, itemSize, normalized, array]; a geometry is
\*   [index, attributes, morphAttributes, groups, drawRange, boundingBox,
\*    boundingSphere]
\* with index None or Some(array of vertex numbers), attributes in the order
\* of Object.keys, morphAttributes a sequence of [key, targets], boundingBox
\* and boundingSphere TRUE when computed (FALSE is null).
count(attribute) == Len(attribute.array) \div attribute.itemSize

hasAttribute(g, name) == \E i \in DOMAIN g.attributes : g.attributes[i].name = name

getAttribute(g, name) == g.attributes[CHOOSE i \in DOMAIN g.attributes : g.attributes[i].name = name]

\* geometry.getAttribute('position')?.count ?? 0
positionCount(g) == IF hasAttribute(g, "position") THEN count(getAttribute(g, "position")) ELSE 0

\* BufferGeometry.toNonIndexed: every attribute and morph attribute is
\* expanded along the index; the groups are kept.
expand(attribute, index) ==
    [attribute EXCEPT !.array = [i \in 1 .. Len(index) * attribute.itemSize |->
        attribute.array[index[((i - 1) \div attribute.itemSize) + 1] * attribute.itemSize + ((i - 1) % attribute.itemSize) + 1]]]

toNonIndexed(g) ==
    [g EXCEPT !.index = None,
              !.attributes = [i \in DOMAIN @ |-> expand(@[i], g.index[1])],
              !.morphAttributes = [k \in DOMAIN @ |-> [@[k] EXCEPT !.targets = [t \in DOMAIN @ |-> expand(@[t], g.index[1])]]],
              !.boundingBox = FALSE,
              !.boundingSphere = FALSE]

\* #ensureGeometryBounds
ensureGeometryBounds(g) == [g EXCEPT !.boundingBox = TRUE, !.boundingSphere = TRUE]

RECURSIVE sumOfCounts(_)
sumOfCounts(ranges) == IF ranges = <<>> THEN 0 ELSE Head(ranges).count + sumOfCounts(Tail(ranges))

\* Mutant: the write offset is not advanced after a range.
RECURSIVE copyRangesAtStart(_, _, _, _, _)
copyRangesAtStart(newArray, array, itemSize, ranges, offset) ==
    IF ranges = <<>> THEN newArray
    ELSE copyRangesAtStart(set(newArray, subarray(array, Head(ranges).start * itemSize,
                                                  Head(ranges).start * itemSize + Head(ranges).count * itemSize), offset),
                           array, itemSize, Tail(ranges), offset)

\* The ranges.forEach of #buildGeometryFromRanges: newArray after the ranges
\* have been copied one after the other, starting at `offset`.
RECURSIVE copyRanges(_, _, _, _, _)
copyRanges(newArray, array, itemSize, ranges, offset) ==
    IF ranges = <<>> THEN newArray
    ELSE copyRanges(set(newArray, subarray(array, Head(ranges).start * itemSize,
                                           Head(ranges).start * itemSize + Head(ranges).count * itemSize), offset),
                    array, itemSize, Tail(ranges), offset + Head(ranges).count * itemSize)

\* new BufferAttribute(newArray, itemSize, attribute.normalized)
repack(attribute, ranges, totalCount) ==
    [attribute EXCEPT !.array = copyRanges(Zeros(totalCount * attribute.itemSize), @, attribute.itemSize, ranges, 0)]

buildGeometryFromRanges(sourceGeometry, ranges) ==
    [index |-> None,
     attributes |-> [i \in DOMAIN sourceGeometry.attributes |->
                        repack(sourceGeometry.attributes[i], ranges, sumOfCounts(ranges))],
     morphAttributes |-> [k \in DOMAIN sourceGeometry.morphAttributes |->
                        [sourceGeometry.morphAttributes[k] EXCEPT !.targets =
                            [t \in DOMAIN @ |-> repack(@[t], ranges, sumOfCounts(ranges))]]],
     groups |-> <<>>,
     drawRange |-> [start |-> 0, count |-> sumOfCounts(ranges)],
     boundingBox |-> TRUE,
     boundingSphere |-> TRUE]

\* ------------------------------------------------------ sample geometries
\* An attribute whose elements are all different: element k holds base + k.
Attribute(name, itemSize, vertices, base) ==
    [name |-> name, itemSize |-> itemSize, normalized |-> FALSE,
     array |-> [i \in 1 .. vertices * itemSize |-> base + i]]

\* A non-indexed geometry of `vertices` vertices with a position attribute,
\* with the uv attributes the layout names, or with one morph target of the
\* position ("morph").
Geometry(vertices, layout) ==
    [index |-> None,
     attributes |-> <<Attribute("position", 3, vertices, 0)>>
                    \o (IF layout \in {"uv", "uv+uv2"} THEN <<Attribute("uv", 2, vertices, 100)>> ELSE <<>>)
                    \o (IF layout \in {"uv2", "uv+uv2"} THEN <<Attribute("uv2", 2, vertices, 300)>> ELSE <<>>),
     morphAttributes |-> IF layout = "morph" THEN <<[key |-> "position", targets |-> <<Attribute("", 3, vertices, 200)>>]>>
                         ELSE <<>>,
     groups |-> <<>>,
     drawRange |-> [start |-> 0, count |-> "Infinity"],
     boundingBox |-> FALSE,
     boundingSphere |-> FALSE]

Layouts == {"plain", "uv", "morph"}

RangesOf(vertices) == [start : 0 .. vertices, count : 0 .. vertices]

\* The lists of at most MaxRanges ranges over `vertices` vertices.
RangeLists(vertices) == UNION {[1 .. n -> RangesOf(vertices)] : n \in 0 .. MaxRanges}

\* --------------------------------------------------------------- materials
\* The fixed-point unit: the finite number k / Unit is written Num(k).
Unit == 2

\* A JavaScript value read where a number is expected: a finite number, NaN,
\* an infinity, or something that is not a number (undefined).
Num(k) == [kind |-> "finite", v |-> k]
NaN == [kind |-> "NaN", v |-> 0]
Infinity == [kind |-> "Infinity", v |-> 0]
Undefined == [kind |-> "undefined", v |-> 0]

JSNumbers == {Num(k) : k \in -1 .. Unit + 1} \cup {NaN, Infinity, Undefined}

\* typeof value === 'number' ? value : fallback
numberOr(value, fallback) == IF value.kind = "undefined" THEN Num(fallback) ELSE value

\* A value that is not finite (NaN, an infinity) is clamped to min.
clamp(value, min, max) ==
    IF value.kind # "finite" THEN Num(min)
    ELSE IF value.v < min THEN Num(min)
    ELSE IF value.v > max THEN Num(max)
    ELSE value

UNSUPPORTED_TEXTURE_PROPS ==
    {"bumpMap", "displacementMap", "emissiveMap", "lightMap", "specularMap", "envMap", "gradientMap",
     "clearcoatMap", "clearcoatNormalMap", "clearcoatRoughnessMap", "sheenColorMap", "sheenRoughnessMap",
     "transmissionMap", "thicknessMap", "iridescenceMap", "iridescenceThicknessMap", "anisotropyMap"}

\* A material: `textures` holds the texture slots that are set, `color` the
\* hex string of its color (None for a material without one), `map` the
\* colorSpace and the version of the base color texture, `version` the
\* number of times needsUpdate was set.  new MeshStandardMaterial():
MeshStandardMaterial ==
    [isMaterial |-> TRUE, type |-> "MeshStandardMaterial", name |-> "",
     textures |-> {}, color |-> Some("ffffff"), map |-> [colorSpace |-> "", version |-> 0],
     aoMapIntensity |-> Num(Unit), metalness |-> Num(0), roughness |-> Num(Unit),
     opacity |-> Num(Unit), alphaTest |-> Num(0), transparent |-> FALSE,
     blending |-> "NormalBlending", depthWrite |-> TRUE,
     emissive |-> "000000", emissiveIntensity |-> Num(Unit), shininess |-> Undefined,
     userData |-> [baseColorBackup |-> None, alphaMode |-> None],
     version |-> 0]

\* The working state of #sanitizeMaterial on one material:
\* [m: the material, g: the geometry or None, needsUpdate].

\* for (const prop of UNSUPPORTED_TEXTURE_PROPS) ...
stripUnsupportedTextures(s) ==
    [s EXCEPT !.m.textures = @ \ UNSUPPORTED_TEXTURE_PROPS,
              !.needsUpdate = @ \/ s.m.textures \cap UNSUPPORTED_TEXTURE_PROPS # {}]

\* Mutant: the backup is overwritten by every pass.
backupBaseColorAlways(s) ==
    IF s.m.color # None
    THEN [s EXCEPT !.m.userData.baseColorBackup = Some(s.m.color[1])]
    ELSE s

\* userData.__baseColorBackup keeps the first color seen.
backupBaseColor(s) ==
    IF s.m.color # None /\ s.m.userData.baseColorBackup = None
    THEN [s EXCEPT !.m.userData.baseColorBackup = Some(s.m.color[1])]
    ELSE s

\* if (meshMaterial.map) ...: sRGB color space, white base color.
normalizeMap(s) ==
    IF "map" \notin s.m.textures THEN s
    ELSE [s EXCEPT !.m.map = IF @.colorSpace # "srgb" THEN [colorSpace |-> "srgb", version |-> @.version + 1] ELSE @,
                   !.m.color = IF @ # None THEN Some("ffffff") ELSE @,
                   !.needsUpdate = @ \/ s.m.map.colorSpace # "srgb" \/ (s.m.color # None /\ s.m.color # Some("ffffff"))]

\* aoMapIntensity, metalness, roughness and opacity clamped to [0, 1].
clampScalars(s) ==
    [s EXCEPT !.m.aoMapIntensity = clamp(numberOr(@, Unit), 0, Unit),
              !.m.metalness = clamp(numberOr(@, 0), 0, Unit),
              !.m.roughness = clamp(numberOr(@, Unit), 0, Unit),
              !.m.opacity = clamp(numberOr(@, Unit), 0, Unit),
              !.needsUpdate = \/ @
                              \/ s.m.aoMapIntensity # clamp(numberOr(s.m.aoMapIntensity, Unit), 0, Unit)
                              \/ s.m.metalness # clamp(numberOr(s.m.metalness, 0), 0, Unit)
                              \/ s.m.roughness # clamp(numberOr(s.m.roughness, Unit), 0, Unit)
                              \/ s.m.opacity # clamp(numberOr(s.m.opacity, Unit), 0, Unit)]

\* Mutant: an explicit transparent flag wins over the alpha mask.
shouldBeTransparentFlagFirst(m, hasAlphaMask) ==
    m.transparent \/ (~hasAlphaMask /\ (m.opacity.v < Unit \/ "alphaMap" \in m.textures))

\* m.opacity is clamped already.
shouldBeTransparent(m, hasAlphaMask) ==
    ~hasAlphaMask /\ (m.transparent \/ m.opacity.v < Unit \/ "alphaMap" \in m.textures)

\* The flags derived from the alpha test: lines 555-580, alphaTest being the
\* clamped value and transparent the value of shouldBeTransparent.
alphaFlags(s, alphaTest, transparent) ==
    [s EXCEPT !.m.alphaTest = alphaTest,
              !.m.transparent = transparent,
              !.m.blending = IF transparent THEN "NormalBlending" ELSE "NoBlending",
              !.m.depthWrite = IF alphaTest.v > 0 THEN TRUE ELSE ~transparent,
              !.m.userData.alphaMode = Some(IF alphaTest.v > 0 THEN "MASK" ELSE IF transparent THEN "BLEND" ELSE "OPAQUE"),
              !.needsUpdate = \/ @
                              \/ s.m.alphaTest # alphaTest
                              \/ s.m.transparent # transparent
                              \/ s.m.blending # (IF transparent THEN "NormalBlending" ELSE "NoBlending")
                              \/ s.m.depthWrite # (IF alphaTest.v > 0 THEN TRUE ELSE ~transparent)
                              \/ s.m.userData.alphaMode # Some(IF alphaTest.v > 0 THEN "MASK" ELSE IF transparent THEN "BLEND" ELSE "OPAQUE")]

\* Mutant: depthWrite is left as the material had it.
deriveAlphaKeepsDepthWrite(s) ==
    [alphaFlags(s, clamp(numberOr(s.m.alphaTest, 0), 0, Unit),
                shouldBeTransparent(s.m, clamp(numberOr(s.m.alphaTest, 0), 0, Unit).v > 0))
        EXCEPT !.m.depthWrite = s.m.depthWrite]

\* Lines 545-580.
deriveAlpha(s) ==
    alphaFlags(s, clamp(numberOr(s.m.alphaTest, 0), 0, Unit),
               shouldBeTransparent(s.m, clamp(numberOr(s.m.alphaTest, 0), 0, Unit).v > 0))

\* An ambient-occlusion or light map needs uv2: it is copied from uv, and
\* without any uv both maps are dropped.
ensureUv2(s) ==
    IF s.g = None \/ s.m.textures \cap {"aoMap", "lightMap"} = {} THEN s
    ELSE IF ~hasAttribute(s.g, "uv2") /\ hasAttribute(s.g, "uv")
    THEN [s EXCEPT !.g.attributes = Append(@, [getAttribute(s.g, "uv") EXCEPT !.name = "uv2"])]
    ELSE IF ~hasAttribute(s.g, "uv") /\ ~hasAttribute(s.g, "uv2")
    THEN [s EXCEPT !.m.textures = @ \ {"aoMap", "lightMap"}, !.needsUpdate = TRUE]
    ELSE s

\* if (needsUpdate) meshMaterial.needsUpdate = true
flush(s) == IF s.needsUpdate THEN [s EXCEPT !.m.version = @ + 1] ELSE s

\* #sanitizeMaterial on one material that is not an array.
sanitizeSingle(m, g) ==
    IF m = None \/ ~m.isMaterial THEN [m |-> m, g |-> g, needsUpdate |-> FALSE]
    ELSE flush(ensureUv2(deriveAlpha(clampScalars(normalizeMap(backupBaseColor(
             stripUnsupportedTextures([m |-> m, g |-> g, needsUpdate |-> FALSE])))))))

\* material.forEach((item) => this.#sanitizeMaterial(item, geometry)): the
\* items sanitized so far and the geometry they leave.
RECURSIVE sanitizeEach(_, _, _)
sanitizeEach(done, items, g) ==
    IF items = <<>> THEN [items |-> done, geometry |-> g]
    ELSE (CHOOSE result \in {sanitizeEach(Append(done, one.m), Tail(items), one.g) :
              one \in {sanitizeSingle(Head(items), g)}} : TRUE)

\* #sanitizeMaterial(material, geometry): the material and the geometry it
\* leaves.  A material is None (null), or [array, items]: one material
\* (array FALSE, one item) or an array of materials.
sanitizeMaterial(mat, g) ==
    IF mat = None THEN [material |-> mat, geometry |-> g]
    ELSE (CHOOSE result \in {[material |-> [mat EXCEPT !.items = each.items], geometry |-> each.geometry] :
              each \in {sanitizeEach(<<>>, mat.items, g)}} : TRUE)

\* ------------------------------------------------------- material cloning
\* Material.clone: a new material with the same fields, never updated yet.
cloneOf(m) == [m EXCEPT !.version = 0]

\* Mutant: the roughness is the normalized shininess itself.
convertToStandardGlossy(source) ==
    [MeshStandardMaterial EXCEPT
        !.name = source.name,
        !.color = IF source.color # None THEN source.color ELSE @,
        !.textures = source.textures \cap {"map", "normalMap", "aoMap", "lightMap", "alphaMap"},
        !.map = source.map,
        !.emissive = "000000",
        !.emissiveIntensity = Num(0),
        !.aoMapIntensity = IF source.aoMapIntensity.kind # "undefined" THEN source.aoMapIntensity ELSE @,
        !.transparent = source.transparent,
        !.opacity = IF source.opacity.kind # "undefined" THEN source.opacity ELSE @,
        !.depthWrite = source.depthWrite,
        !.roughness = IF source.roughness.kind # "undefined" THEN source.roughness
                      ELSE IF source.shininess.kind = "finite" THEN Num(Min(source.shininess.v, Unit))
                      ELSE IF source.shininess.kind = "Infinity" THEN Num(Unit)
                      ELSE IF source.shininess.kind = "NaN" THEN NaN
                      ELSE @,
        !.metalness = IF source.metalness.kind # "undefined" THEN source.metalness ELSE Num(0)]

\* #convertToStandard(source): a MeshStandardMaterial with the base color,
\* the supported maps, the opacity and the flags of a Phong / Lambert
\* material; emissive is switched off.  shininess is written in hundreds
\* (Num(k) is the shininess 100 k / Unit), roughness = 1 - min(shininess / 100, 1).
convertToStandard(source) ==
    [MeshStandardMaterial EXCEPT
        !.name = source.name,
        !.color = IF source.color # None THEN source.color ELSE @,
        !.textures = source.textures \cap {"map", "normalMap", "aoMap", "lightMap", "alphaMap"},
        !.map = source.map,
        !.emissive = "000000",
        !.emissiveIntensity = Num(0),
        !.aoMapIntensity = IF source.aoMapIntensity.kind # "undefined" THEN source.aoMapIntensity ELSE @,
        !.transparent = source.transparent,
        !.opacity = IF source.opacity.kind # "undefined" THEN source.opacity ELSE @,
        !.depthWrite = source.depthWrite,
        !.roughness = IF source.roughness.kind # "undefined" THEN source.roughness
                      ELSE IF source.shininess.kind = "finite" THEN Num(Unit - Min(source.shininess.v, Unit))
                      ELSE IF source.shininess.kind = "Infinity" THEN Num(0)
                      ELSE IF source.shininess.kind = "NaN" THEN NaN
                      ELSE @,
        !.metalness = IF source.metalness.kind # "undefined" THEN source.metalness ELSE Num(0)]

\* #cloneSingleMaterial
cloneSingleMaterial(m) ==
    IF m = None THEN m
    ELSE IF m.type \in {"MeshStandardMaterial", "MeshPhysicalMaterial"} THEN cloneOf(m)
    ELSE IF m.type \in {"MeshPhongMaterial", "MeshLambertMaterial"} THEN convertToStandard(m)
    ELSE cloneOf(m)

\* #cloneMaterial
cloneMaterial(mat) ==
    IF mat = None THEN None
    ELSE [mat EXCEPT !.items = [i \in DOMAIN @ |-> cloneSingleMaterial(@[i])]]

\* ------------------------------------------------------------ mesh records
\* A node of a parsed scene graph:
\*   [id, isMesh, name, geometry, material, userData, matrixWorld, children].
\* A mesh record made from it (child.clone(false) with its own geometry and
\* material): [uuid, name, geometry, material, pose, userData, visible], and
\* as history the id of the node it was cloned from, its number among the
\* clones of that node, and the number of the importModel call that made it.

\* Mutant: the groups of a material are bucketed under the raw index of
\* the last group seen, so that same-material ranges are not merged.
RECURSIVE rangesByMaterialUnmerged(_, _, _)
rangesByMaterialUnmerged(groups, materials, buckets) ==
    IF groups = <<>> THEN buckets
    ELSE rangesByMaterialUnmerged(Tail(groups), materials,
             Append(buckets, [materialIndex |-> Min(Len(materials) - 1, Max(0, Head(groups).materialIndex)),
                              ranges |-> <<[start |-> Head(groups).start, count |-> Head(groups).count]>>]))

\* groups.forEach of #cloneAndSplitMesh: the Map rangesByMaterial as the
\* sequence of its entries [materialIndex, ranges], in insertion order.
RECURSIVE rangesByMaterial(_, _, _)
rangesByMaterial(groups, materials, buckets) ==
    IF groups = <<>> THEN buckets
    ELSE (CHOOSE result \in {
             rangesByMaterial(Tail(groups), materials,
                 IF materials[materialIndex + 1] = None THEN buckets
                 ELSE IF \E b \in DOMAIN buckets : buckets[b].materialIndex = materialIndex
                 THEN [b \in DOMAIN buckets |->
                          IF buckets[b].materialIndex = materialIndex
                          THEN [buckets[b] EXCEPT !.ranges = Append(@, [start |-> Head(groups).start, count |-> Head(groups).count])]
                          ELSE buckets[b]]
                 ELSE Append(buckets, [materialIndex |-> materialIndex,
                                       ranges |-> <<[start |-> Head(groups).start, count |-> Head(groups).count]>>])) :
             materialIndex \in {Min(Len(materials) - 1, Max(0, Head(groups).materialIndex))}} : TRUE)

\* A clone of the child with the given geometry and material, sanitized and
\* placed: lines 336-343, 348-356, 360-368.
cloneWith(child, g, mat, transform) ==
    (CHOOSE result \in {[uuid |-> 0, node |-> child.id, part |-> 0, import |-> 0,
                         name |-> child.name, geometry |-> sanitized.geometry,
                         material |-> sanitized.material, pose |-> transform,
                         userData |-> child.userData, visible |-> child.visible] :
         sanitized \in {sanitizeMaterial(mat, g)}} : TRUE)

\* BufferGeometry.clone
cloneGeometry(g) == g

\* The geometry the groups of a multi-material child are cut from.
workingGeometry(child) ==
    IF child.geometry.index # None THEN toNonIndexed(child.geometry) ELSE cloneGeometry(child.geometry)

\* The groups of the child, or one group over the whole working geometry.
groupsOf(child) ==
    IF child.geometry.groups # <<>> THEN child.geometry.groups
    ELSE <<[start |-> 0, count |-> positionCount(workingGeometry(child)), materialIndex |-> 0]>>

\* rangesByMaterial.forEach of #cloneAndSplitMesh: one clone per entry whose
\* geometry has vertices.
splitClones(child, working, buckets, transform) ==
    SelectSeq([b \in DOMAIN buckets |->
                  cloneWith(child, buildGeometryFromRanges(working, buckets[b].ranges),
                            [array |-> FALSE, items |-> <<cloneSingleMaterial(child.material.items[buckets[b].materialIndex + 1])>>],
                            transform)],
              LAMBDA mesh : positionCount(mesh.geometry) # 0)

\* The single clone of a child that is not split.
wholeClone(child, transform) ==
    cloneWith(child, ensureGeometryBounds(cloneGeometry(child.geometry)), cloneMaterial(child.material), transform)

\* #cloneAndSplitMesh(child, transform)
cloneAndSplitMesh(child, transform) ==
    IF child.material # None /\ child.material.array /\ Len(child.material.items) > 1
    THEN (CHOOSE result \in {IF clones # <<>> THEN clones ELSE <<wholeClone(child, transform)>> :
              clones \in {splitClones(child, workingGeometry(child),
                                      rangesByMaterial(groupsOf(child), child.material.items, <<>>), transform)}} : TRUE)
    ELSE <<wholeClone(child, transform)>>

\* ------------------------------------------------------------------ files
\* A string is the sequence of its characters (or of longer pieces, where
\* the pieces are never looked into).
UpperCase == <<"A", "B", "C", "D", "E", "F", "G", "H", "I", "J", "K", "L", "M",
               "N", "O", "P", "Q", "R", "S", "T", "U", "V", "W", "X", "Y", "Z">>

LowerCase == <<"a", "b", "c", "d", "e", "f", "g", "h", "i", "j", "k", "l", "m",
               "n", "o", "p", "q", "r", "s", "t", "u", "v", "w", "x", "y", "z">>

toLowerCase(string) ==
    [i \in 1 .. Len(string) |->
        IF \E k \in DOMAIN UpperCase : UpperCase[k] = string[i]
        THEN LowerCase[CHOOSE k \in DOMAIN UpperCase : UpperCase[k] = string[i]]
        ELSE string[i]]

\* Where /\.(tail)$/ matches, the tail being one or more characters none of
\* which is in `excluded`: the position of the dot, 0 without a match.
lastDot(string, excluded) ==
    IF \E i \in 1 .. Len(string) - 1 :
           string[i] = "." /\ \A k \in i + 1 .. Len(string) : string[k] \notin excluded
    THEN CHOOSE i \in 1 .. Len(string) - 1 :
           string[i] = "." /\ \A k \in i + 1 .. Len(string) : string[k] \notin excluded
    ELSE 0

\* #getExtension: /\.([^.]+)$/, lower-cased; None is null.
getExtension(fileName) ==
    IF lastDot(fileName, {"."}) = 0 THEN None
    ELSE Some(toLowerCase(SubSeq(fileName, lastDot(fileName, {"."}) + 1, Len(fileName))))

\* fileName.replace(/\.[^/.]+$/, '') || 'Mesh'
baseNameOf(fileName) ==
    IF lastDot(fileName, {".", "/"}) = 0 THEN fileName
    ELSE IF lastDot(fileName, {".", "/"}) = 1 THEN <<"Mesh">>
    ELSE SubSeq(fileName, 1, lastDot(fileName, {".", "/"}) - 1)

\* ---------------------------------------------------------- scene graphs
\* A mesh node with the geometry and the material in hand.
Child(id, name, g, mat, world) ==
    [id |-> id, isMesh |-> TRUE, name |-> name, geometry |-> g, material |-> mat,
     userData |-> [source |-> None, initialTransform |-> None], visible |-> TRUE,
     matrixWorld |-> world, children |-> <<>>]

Glass == [MeshStandardMaterial EXCEPT !.name = "glass", !.opacity = Num(1), !.textures = {"map"}, !.color = Some("ff0000")]

Phong ==
    [MeshStandardMaterial EXCEPT !.type = "MeshPhongMaterial", !.name = "phong", !.textures = {"aoMap", "bumpMap"},
         !.roughness = Undefined, !.metalness = Undefined, !.shininess = Num(1),
         !.emissive = "ffffff", !.alphaTest = Num(1)]

MatrixA == Compose(IdentityPose)
MatrixB == Compose(InitialPose(2))

TwoGroups == <<[start |-> 0, count |-> 1, materialIndex |-> 1], [start |-> 1, count |-> 1, materialIndex |-> 0]>>

Group(id, children) ==
    [id |-> id, isMesh |-> FALSE, name |-> <<>>, geometry |-> None, material |-> None,
     userData |-> [source |-> None, initialTransform |-> None], visible |-> TRUE,
     matrixWorld |-> MatrixA, children |-> children]

\* The roots the parsers return: an empty group; one unnamed mesh; a group
\* holding a named mesh of two materials, which has an unnamed mesh as its
\* child, and after it a named mesh of one material; a group holding an
\* unnamed mesh of two materials and an unnamed mesh of one.
EmptyRoot == Group(1, <<>>)

MeshRoot == Child(1, <<>>, Geometry(1, "plain"), [array |-> FALSE, items |-> <<Glass>>], MatrixB)

TreeRoot ==
    Group(1, <<[Child(2, <<"A">>, [Geometry(2, "plain") EXCEPT !.groups = TwoGroups],
                      [array |-> TRUE, items |-> <<Glass, Phong>>], MatrixA)
                   EXCEPT !.children = <<Child(3, <<>>, Geometry(1, "uv"), [array |-> FALSE, items |-> <<Phong>>], MatrixB)>>],
                Child(4, <<"B">>, Geometry(1, "plain"), [array |-> FALSE, items |-> <<Glass>>], MatrixA)>>)

UnnamedRoot ==
    Group(1, <<Child(2, <<>>, [Geometry(2, "plain") EXCEPT !.groups = TwoGroups],
                     [array |-> TRUE, items |-> <<Glass, Phong>>], MatrixA),
               Child(3, <<>>, Geometry(1, "plain"), [array |-> FALSE, items |-> <<Glass>>], MatrixB)>>)

\* Object3D.traverse: the node, then the nodes of each child in turn.
RECURSIVE traverse(_)
RECURSIVE traverseEach(_)
traverse(node) == <<node>> \o traverseEach(node.children)

traverseEach(nodes) == IF nodes = <<>> THEN <<>> ELSE traverse(Head(nodes)) \o traverseEach(Tail(nodes))

\* Mutant: the clone of an unnamed child is numbered within its child.
nameCloneNumberedPerChild(mesh, child, cloneIndex, clones, baseName, index, fileName) ==
    [mesh EXCEPT !.name = IF child.name # <<>>
                          THEN (IF clones > 1 THEN child.name \o <<"_part", ToString(cloneIndex + 1)>> ELSE child.name)
                          ELSE baseName \o <<"_", ToString(cloneIndex + 1)>>,
                 !.userData.source = Some(fileName),
                 !.part = cloneIndex + 1]

\* The clone number cloneIndex of a child with `clones` clones, found at the
\* running number `index`: its name, its source, and (history) its part.
nameClone(mesh, child, cloneIndex, clones, baseName, index, fileName) ==
    [mesh EXCEPT !.name = IF child.name # <<>>
                          THEN (IF clones > 1 THEN child.name \o <<"_part", ToString(cloneIndex + 1)>> ELSE child.name)
                          ELSE baseName \o <<"_", ToString(index)>>,
                 !.userData.source = Some(fileName),
                 !.part = cloneIndex + 1]

\* Mutant: every clone is put in front of the meshes found so far.
RECURSIVE extractUnshift(_, _, _, _, _)
extractUnshift(nodes, baseName, fileName, index, meshes) ==
    IF nodes = <<>> THEN meshes
    ELSE IF ~Head(nodes).isMesh THEN extractUnshift(Tail(nodes), baseName, fileName, index, meshes)
    ELSE (CHOOSE result \in {
             extractUnshift(Tail(nodes), baseName, fileName, index + Len(clones),
                     [k \in 1 .. Len(clones) |->
                         nameClone(clones[Len(clones) + 1 - k], Head(nodes), Len(clones) - k, Len(clones), baseName,
                                   index + Len(clones) - k, fileName)] \o meshes) :
             clones \in {cloneAndSplitMesh(Head(nodes), Decompose(Head(nodes).matrixWorld))}} : TRUE)

\* The callback of root.traverse in #extractMeshes, over the nodes still to
\* visit: `index` is the running number, `meshes` the meshes pushed so far.
RECURSIVE extract(_, _, _, _, _)
extract(nodes, baseName, fileName, index, meshes) ==
    IF nodes = <<>> THEN meshes
    ELSE IF ~Head(nodes).isMesh THEN extract(Tail(nodes), baseName, fileName, index, meshes)
    ELSE (CHOOSE result \in {
             extract(Tail(nodes), baseName, fileName, index + Len(clones),
                     meshes \o [k \in 1 .. Len(clones) |->
                                   nameClone(clones[k], Head(nodes), k - 1, Len(clones), baseName, index + k - 1, fileName)]) :
             clones \in {cloneAndSplitMesh(Head(nodes), Decompose(Head(nodes).matrixWorld))}} : TRUE)

\* #extractMeshes(root, fileName)
extractMeshes(root, fileName) == extract(traverse(root), baseNameOf(fileName), fileName, 1, <<>>)

\* ---------------------------------------------------------------- parsers
\* The bytes of a file: the format they are written in ("gltf" is JSON text,
\* "glb" the binary container, "corrupt" none of the formats), whether they
\* hold the text 'KHR_draco_mesh_compression' (in a glTF file: whether it
\* uses the extension), and the scene graph they describe.
Bytes(format, signature, root) == [format |-> format, signature |-> signature, root |-> root]

NoDracoLoader == "THREE.GLTFLoader: No DRACOLoader instance provided."

\* The result of a parser: the root it resolves with or the error it
\* rejects with.
Resolved(root) == [ok |-> TRUE, root |-> root, error |-> ""]
Rejected(error) == [ok |-> FALSE, root |-> EmptyRoot, error |-> error]

\* #bufferUsesDraco: the text of a .gltf is searched for the signature; of a
\* .glb the JSON chunk is searched, if the bytes start with the magic.
bufferUsesDraco(buffer, extension) ==
    IF extension = <<"g", "l", "t", "f">> THEN buffer.signature
    ELSE buffer.format = "glb" /\ buffer.signature

\* Mutant: every call constructs a DRACOLoader.
getDracoLoaderAnew(manager) ==
    [manager EXCEPT !.dracoLoader = IF @ = None THEN Some(1) ELSE Some(@[1] + 1)]

\* #getDracoLoader: Some(n) is the n-th DRACOLoader the manager constructed.
getDracoLoader(manager) == IF manager.dracoLoader = None THEN [manager EXCEPT !.dracoLoader = Some(1)] ELSE manager

\* GLTFLoader.parse: text and binary container are both accepted; a file
\* that uses the compression extension needs the loader's DRACOLoader.
gltfLoaderParse(manager, buffer) ==
    IF buffer.format \notin {"gltf", "glb"} THEN Rejected("Unexpected token")
    ELSE IF buffer.signature /\ manager.gltfLoader.dracoLoader = None THEN Rejected(NoDracoLoader)
    ELSE Resolved(buffer.root)

\* FBXLoader.parse throws on bytes that are no FBX; OBJLoader.parse skips
\* the lines it does not know and returns what it found.
fbxLoaderParse(buffer) == IF buffer.format = "fbx" THEN Resolved(buffer.root) ELSE Rejected("THREE.FBXLoader: Unknown format.")

objLoaderParse(buffer) == IF buffer.format = "obj" THEN Resolved(buffer.root) ELSE Resolved(EmptyRoot)

\* #parseGLTF up to loader.parse: the manager with the decompressor set
\* on the loader when the buffer asks for it.
prepareGltfLoader(manager, buffer, extension) ==
    IF bufferUsesDraco(buffer, extension)
    THEN [getDracoLoader(manager) EXCEPT !.gltfLoader.dracoLoader = getDracoLoader(manager).dracoLoader]
    ELSE manager

\* #parseByExtension(extension, buffer): the manager it leaves, the parser
\* calls it made (their results, in order), and the result of its promise.
parseByExtension(manager, extension, buffer) ==
    IF extension \in {<<"g", "l", "t", "f">>, <<"g", "l", "b">>}
    THEN [manager |-> prepareGltfLoader(manager, buffer, extension),
          attempts |-> <<gltfLoaderParse(prepareGltfLoader(manager, buffer, extension), buffer)>>,
          outcome |-> gltfLoaderParse(prepareGltfLoader(manager, buffer, extension), buffer)]
    ELSE IF extension = <<"f", "b", "x">>
    THEN [manager |-> manager, attempts |-> <<fbxLoaderParse(buffer)>>, outcome |-> fbxLoaderParse(buffer)]
    ELSE IF extension = <<"o", "b", "j">>
    THEN [manager |-> manager, attempts |-> <<objLoaderParse(buffer)>>, outcome |-> objLoaderParse(buffer)]
    ELSE [manager |-> manager, attempts |-> <<>>, outcome |-> Rejected("Unsupported file extension")]

\* ------------------------------------------------------------ importModel
\* The files dropped on the panel: a name and the bytes behind it.
File(name, buffer) == [name |-> name, buffer |-> buffer]

Files ==
    {File(<<"a">>, Bytes("obj", FALSE, MeshRoot)),
     File(<<"a", ".">>, Bytes("obj", FALSE, MeshRoot)),
     File(<<"a", ".", "t", "x", "t">>, Bytes("obj", FALSE, MeshRoot)),
     File(<<"a", ".", "G", "L", "B">>, Bytes("glb", FALSE, TreeRoot)),
     File(<<"a", ".", "g", "l", "b">>, Bytes("glb", TRUE, MeshRoot)),
     File(<<"s", ".", "g", "l", "b">>, Bytes("gltf", TRUE, MeshRoot)),
     File(<<"a", ".", "g", "l", "t", "f">>, Bytes("gltf", TRUE, TreeRoot)),
     File(<<"a", ".", "g", "l", "t", "f">>, Bytes("corrupt", FALSE, EmptyRoot)),
     File(<<"a", ".", "f", "b", "x">>, Bytes("fbx", FALSE, TreeRoot)),
     File(<<"a", ".", "f", "b", "x">>, Bytes("corrupt", FALSE, EmptyRoot)),
     File(<<".", "o", "b", "j">>, Bytes("obj", FALSE, MeshRoot)),
     File(<<"b", ".", "v", "1", ".", "o", "b", "j">>, Bytes("obj", FALSE, UnnamedRoot)),
     File(<<"b", ".", "v", "1", ".", "o", "b", "j">>, Bytes("corrupt", FALSE, EmptyRoot))}

\* One call of importModel(file): where it stands ("arrayBuffer": awaiting
\* file.arrayBuffer(); "parse": awaiting #parseByExtension; "resolved";
\* "rejected"), whether file.arrayBuffer() was called, the results of the
\* parser calls made for it, the result of #parseByExtension, and the error
\* the call rejected with.
Job(file, pc, arrayBuffer, error) ==
    [file |-> file, pc |-> pc, arrayBuffer |-> arrayBuffer, attempts |-> <<>>, outcome |-> None, error |-> error]

\* importModel up to its first await.
startImport(file) ==
    IF getExtension(file.name) = None
    THEN Job(file, "rejected", FALSE, Some("Unsupported file format"))
    ELSE Job(file, "arrayBuffer", TRUE, None)

\* importModel from the buffer to its second await.
parseBuffer(manager, job) ==
    (CHOOSE result \in {[manager |-> parsed.manager,
                         job |-> [job EXCEPT !.pc = "parse", !.attempts = parsed.attempts, !.outcome = Some(parsed.outcome)]] :
        parsed \in {parseByExtension(manager, getExtension(job.file.name)[1], job.file.buffer)}} : TRUE)

\* The body of meshes.forEach in importModel, up to sceneManager.addMesh:
\* the meshes of call `call`, with the uuids after `uuids`.
prepareMeshes(meshes, call, uuids) ==
    [k \in 1 .. Len(meshes) |->
        [meshes[k] EXCEPT !.uuid = uuids + k, !.import = call, !.visible = TRUE,
                          !.userData.initialTransform = IF @ = None THEN Some(meshes[k].pose) ELSE @]]

\* Mutant: the first mesh of a model is registered ahead of every record.
registerEachFirstAhead(s, meshes) ==
    IF meshes = <<>> THEN s
    ELSE updateListHighlight([s EXCEPT !.meshMap = <<Head(meshes).uuid>> \o @ \o [k \in 1 .. Len(meshes) - 1 |-> meshes[k + 1].uuid]])

RECURSIVE registerEach(_, _)
registerEach(s, meshes) ==
    IF meshes = <<>> THEN s ELSE registerEach(registerMesh(s, Head(meshes).uuid), Tail(meshes))

\* panel.createMeshRow appends the row of the mesh to the list.
createMeshRow(mesh) == [uuid |-> mesh.uuid, name |-> mesh.name]

\* sceneManager.addMesh, panel.createMeshRow and selectionManager.registerMesh
\* for each mesh in turn.
addMeshes(manager, meshes) ==
    [manager EXCEPT !.scene = @ \o meshes,
                    !.rows = @ \o [k \in 1 .. Len(meshes) |-> createMeshRow(meshes[k])],
                    !.uuids = @ + Len(meshes)]

\* Mutant: a rejected parse is taken as an empty model.
settleSwallowing(manager, job, call) ==
    IF job.outcome[1].ok
    THEN (CHOOSE result \in {[manager |-> addMeshes(manager, meshes), meshes |-> meshes,
                              job |-> [job EXCEPT !.pc = "resolved"]] :
            meshes \in {prepareMeshes(extractMeshes(job.outcome[1].root, job.file.name), call, manager.uuids)}} : TRUE)
    ELSE [manager |-> manager, meshes |-> <<>>, job |-> [job EXCEPT !.pc = "resolved"]]

\* importModel after #parseByExtension has settled.
settle(manager, job, call) ==
    IF job.outcome[1].ok
    THEN (CHOOSE result \in {[manager |-> addMeshes(manager, meshes), meshes |-> meshes,
                              job |-> [job EXCEPT !.pc = "resolved"]] :
            meshes \in {prepareMeshes(extractMeshes(job.outcome[1].root, job.file.name), call, manager.uuids)}} : TRUE)
    ELSE [manager |-> manager, meshes |-> <<>>,
          job |-> [job EXCEPT !.pc = "rejected", !.error = Some(job.outcome[1].error)]]

\* The ImportManager after its constructor: no decompressor yet, and an
\* empty scene and panel list.
InitImportManager ==
    /\ im = [dracoLoader |-> None, gltfLoader |-> [dracoLoader |-> None], scene |-> <<>>, rows |-> <<>>, uuids |-> 0]
    /\ jobs = <<>>

\* Nothing is being prepared by the private methods of the ImportManager.
Unprepared ==
    /\ material = None
    /\ geometry = None
    /\ built = None

\* ------------------------------------------------- SelectionManager spec
InitSelection ==
    /\ meshMap = <<>>
    /\ selectedMeshes = {}
    /\ lastSelectedId = Null
    /\ liSelected = {}
    /\ dispatched = <<>>
    /\ lastCall = [op |-> "constructor", arg |-> Null, flag |-> FALSE]

Init ==
    /\ InitSelection
    /\ revision \in {"A", "B"}
    /\ InitTransform
    /\ pose = <<>>
    /\ um = [stack |-> <<>>, limit |-> DefaultLimit]
    /\ history = [handler |-> "constructor", moves |-> 0, dragStart |-> None, previous |-> None]
    /\ InitImportManager
    /\ Unprepared
    /\ InitInterface

Next ==
    \/ RegisterMesh
    \/ UnregisterMesh
    \/ SelectFromScene
    \/ SelectFromList
    \/ SetSelection
    \/ ClearSelection
    \/ RemoveFromSelection
    \/ SelectMeshes
    \/ SelectAll

Spec == Init /\ [][Next]_vars

\* --------------------------------------------------------------- handlers
\* history.previous holds the members of the drag that ended last, from its
\* end until the first handler that follows the next drag start.
Forget(previous) == IF tm.isDragging THEN None ELSE previous

\* The state a handler leaves behind.
Handled(w, h) ==
    /\ tm' = w.tm
    /\ um' = w.um
    /\ pose' = w.pose
    /\ orbitEnabled' = w.orbitEnabled
    /\ emitted' = w.events
    /\ history' = h
    /\ UNCHANGED <<selVars, imVars, ui>>

\* The meshes the model places the anchor on: those whose quaternion is a
\* unit quaternion (it is not after the decomposition of a sheared matrix)
\* and whose world quaternion is computable.
Placeable(w, selection) ==
    \A mesh \in selection :
        /\ ColumnLengthSq(w.pose[mesh].r[1], w.pose[mesh].r[2]) = QOne
        /\ Representable(matrixWorld(w, mesh))

\* toolbar 'modechange' -> transformManager.setMode(mode).
SetMode ==
    \E newMode \in Modes :
        /\ Handled(setMode(World, newMode), [history EXCEPT !.handler = "setMode", !.previous = Forget(@)])
        /\ UNCHANGED client

\* 'selectionchange' -> transformManager.updateAnchorFromSelection(selectedMeshes).
UpdateAnchorFromSelection ==
    \E selection \in SUBSET Bodies :
        /\ Handled(updateAnchorFromSelection(World, selection), [history EXCEPT !.handler = "updateAnchorFromSelection", !.previous = Forget(@)])
        /\ UNCHANGED client

\* TransformControls pointerDown on an attached gizmo: it records the
\* anchor's pose and sets dragging, which fires 'dragging-changed' (true).
DragStart ==
    /\ ~tm.isDragging
    /\ tm.controls.object = "anchor"
    /\ Placeable(World, tm.currentSelection)
    /\ Handled(draggingChanged([World EXCEPT !.tm.controls.start = Some(tm.anchor)], TRUE),
               [history EXCEPT !.handler = "dragStart",
                               !.dragStart = Some([anchor |-> tm.anchor, pose |-> pose, members |-> tm.currentSelection])])
    /\ UNCHANGED client

\* TransformControls pointerUp: 'dragging-changed' (false).
DragEnd ==
    /\ tm.isDragging
    /\ Handled(draggingChanged(World, FALSE), [history EXCEPT !.handler = "dragEnd", !.dragStart = None,
                               !.previous = Some(history.dragStart[1].members)])
    /\ UNCHANGED client

\* What a pointer move of the gizmo sets on the anchor, from the pose it
\* recorded at pointerDown: an offset, a rotation or a scale factor.
GizmoMoves(controlsMode) ==
    CASE controlsMode = "translate" -> {V(QZero, QZero), V(QOne, QZero), V(QZero, QInt(-2))}
      [] controlsMode = "rotate" -> {Identity, Rot45, Rot90}
      [] OTHER -> {V(QOne, QOne), V(QInt(2), QInt(2)), V(QInt(3), QInt(4))}

pointerMove(w, move) ==
    LET start == w.tm.controls.start[1]
    IN CASE w.tm.controls.mode = "translate" -> [w EXCEPT !.tm.anchor.p = VAdd(start.p, move)]
         [] w.tm.controls.mode = "rotate" -> [w EXCEPT !.tm.anchor.r = Premultiply(start.r, move)]
         [] OTHER -> [w EXCEPT !.tm.anchor.s = V(QMul(start.s[1], move[1]), QMul(start.s[2], move[2]))]

\* Every member's new world matrix decomposes into rational scales.
Applicable(w) ==
    w.tm.dragState # None =>
        \A mesh \in DOMAIN w.tm.dragState[1].meshStates :
            Representable(MMul(Compose(w.tm.anchor), w.tm.dragState[1].meshStates[mesh]))

\* TransformControls pointerMove on the dragged gizmo: it moves the anchor
\* and fires 'change'.  history.moves counts the 'change' events that moved
\* a mesh or followed a pointer move.
PointerMove ==
    /\ tm.isDragging
    /\ tm.controls.object = "anchor"
    /\ history.moves < MaxMoves
    /\ \E move \in GizmoMoves(tm.controls.mode) :
           \E moved \in {pointerMove(World, move)} :
               /\ Applicable(moved)
               /\ Handled(change(moved), [history EXCEPT !.handler = "pointerMove", !.moves = @ + 1, !.previous = Forget(@)])
    /\ UNCHANGED client

\* TransformControls 'change' for any other reason (hover, a changed
\* property of the controls).
Change ==
    /\ tm.isDragging => Applicable(World)
    /\ \E changed \in {change(World)} :
           /\ changed.pose # pose => history.moves < MaxMoves
           /\ Handled(changed, [history EXCEPT !.handler = "change",
                                               !.moves = IF changed.pose # pose THEN @ + 1 ELSE @,
                                               !.previous = Forget(@)])
    /\ UNCHANGED client

\* The control flow of the TransformManager with the meshes left where
\* they were imported: no pointer move, and the budget of moves is spent.
InitWithUndo ==
    /\ InitSelection
    /\ revision = "B"
    /\ InitTransform
    /\ pose = Imported
    /\ um = [stack |-> <<>>, limit |-> DefaultLimit]
    /\ history = [handler |-> "constructor", moves |-> MaxMoves, dragStart |-> None, previous |-> None]
    /\ InitImportManager
    /\ Unprepared
    /\ InitInterface

NextTransform ==
    \/ SetMode
    \/ UpdateAnchorFromSelection
    \/ DragStart
    \/ Change
    \/ DragEnd

SpecTransform == InitWithUndo /\ [][NextTransform]_vars

\* Drags of a gizmo that was attached to a selection: the state after
\* setMode(mode) and updateAnchorFromSelection(selection).
InitDrag ==
    /\ InitSelection
    /\ revision = "B"
    /\ \E newMode \in Modes \ {"none"}, selection \in (SUBSET Bodies) \ {{}} :
           \E w \in {updateAnchorFromSelection(setMode(Constructed, newMode), selection)} :
              /\ tm = w.tm
              /\ um = w.um
              /\ pose = w.pose
              /\ orbitEnabled = w.orbitEnabled
    /\ emitted = <<>>
    /\ client = [snapshot |-> None, requested |-> <<>>, poseAtCapture |-> None]
    /\ history = [handler |-> "updateAnchorFromSelection", moves |-> 0, dragStart |-> None, previous |-> None]
    /\ InitImportManager
    /\ Unprepared
    /\ InitInterface

NextDrag ==
    \/ DragStart
    \/ PointerMove
    \/ Change
    \/ DragEnd

SpecDrag == InitDrag /\ [][NextDrag]_vars

\* 'selectionchange' between two drags:
\* transformManager.updateAnchorFromSelection(selectedMeshes) while idle.
\* history.moves counts these calls as it counts the moves of the gizmo.
SelectionChangeWhileIdle ==
    /\ ~tm.isDragging
    /\ history.moves < MaxMoves
    /\ \E selection \in SUBSET Bodies :
           Handled(updateAnchorFromSelection(World, selection),
                   [history EXCEPT !.handler = "updateAnchorFromSelection", !.moves = @ + 1, !.previous = Forget(@)])
    /\ UNCHANGED client

\* Drags of the gizmo between which the selection changes: the anchor is
\* placed again on meshes that the drags have moved, turned and scaled.
NextAnchor ==
    \/ DragStart
    \/ PointerMove
    \/ DragEnd
    \/ SelectionChangeWhileIdle

SpecAnchor == InitDrag /\ [][NextAnchor]_vars

\* ------------------------------------------------------ UndoManager calls
\* The arrays a caller passes to captureSnapshot: with repeated and with
\* missing meshes.
CaptureArrays == {<<>>, <<1>>, <<2, 1, 2>>, <<Null, 1, 1>>}

\* The limits an UndoManager is constructed with: none kept, a few kept.
Limits == {0, SmallLimit}

PoseSamples == {InitialPose(1), InitialPose(2)}

CaptureSnapshot ==
    \E meshes \in CaptureArrays :
        /\ client' = [snapshot |-> Some(captureSnapshot(World, meshes)), requested |-> meshes, poseAtCapture |-> Some(pose)]
        /\ Handled(World, [history EXCEPT !.handler = "captureSnapshot"])

\* A caller moves a mesh (as the inspector and the gizmo do).
MoveMesh ==
    \E mesh \in {1, 2}, newPose \in PoseSamples :
        /\ newPose # pose[mesh]
        /\ Handled([World EXCEPT !.pose[mesh] = newPose], [history EXCEPT !.handler = "moveMesh"])
        /\ UNCHANGED client

\* The caller hands over its snapshot; it remembers what it captured for
\* as long as the entry pushed last is its own.
CommitSnapshot ==
    /\ Handled(commitSnapshot(World, client.snapshot), [history EXCEPT !.handler = "commitSnapshot"])
    /\ client' = IF client.snapshot \notin {None, Some(<<>>)} /\ snapshotChanged(World, client.snapshot[1])
                 THEN [client EXCEPT !.snapshot = None]
                 ELSE [snapshot |-> None, requested |-> <<>>, poseAtCapture |-> None]

Undo ==
    /\ Handled(undo(World), [history EXCEPT !.handler = "undo"])
    /\ UNCHANGED client

Clear ==
    /\ Handled(clear(World), [history EXCEPT !.handler = "clear"])
    /\ UNCHANGED client

InitUndo ==
    /\ InitSelection
    /\ revision = "B"
    /\ InitTransform
    /\ pose = Imported
    /\ um \in {[stack |-> <<>>, limit |-> limit] : limit \in Limits}
    /\ history = [handler |-> "constructor", moves |-> 0, dragStart |-> None, previous |-> None]
    /\ InitImportManager
    /\ Unprepared
    /\ InitInterface

NextUndo ==
    \/ CaptureSnapshot
    \/ MoveMesh
    \/ CommitSnapshot
    \/ Undo
    \/ Clear

SpecUndo == InitUndo /\ [][NextUndo]_vars

\* ---------------------------------------------------- ImportManager calls
\* The application around the ImportManager, freshly constructed.
InitApplication ==
    /\ InitSelection
    /\ revision = "B"
    /\ InitTransform
    /\ pose = <<>>
    /\ um = [stack |-> <<>>, limit |-> DefaultLimit]
    /\ history = [handler |-> "constructor", moves |-> 0, dragStart |-> None, previous |-> None]
    /\ InitInterface

\* #buildGeometryFromRanges(geometry, ranges), for every list of ranges.  The
\* method keeps nothing between two calls, so one call per behaviour is
\* followed.
BuildGeometryFromRanges ==
    /\ built = None
    /\ \E ranges \in RangeLists(positionCount(geometry)) :
           built' = [op |-> "buildGeometryFromRanges", ranges |-> ranges,
                     result |-> buildGeometryFromRanges(geometry, ranges)]
    /\ UNCHANGED <<selVars, xfVars, im, jobs, material, geometry, ui>>

InitRepack ==
    /\ InitApplication
    /\ InitImportManager
    /\ material = None
    /\ geometry \in {Geometry(vertices, layout) : vertices \in 0 .. MaxVertices, layout \in Layouts}
    /\ built = None

NextRepack ==
    \/ BuildGeometryFromRanges

SpecRepack == InitRepack /\ [][NextRepack]_vars

\* The inputs of #sanitizeMaterial.  The alpha inputs are combined in full
\* with a few settings of the other fields, and the other fields in full
\* with a few alpha inputs.
AlphaInputs == [opacity : JSNumbers, alphaTest : JSNumbers, transparent : BOOLEAN, alphaMap : BOOLEAN]

OtherInputs ==
    [scalar : JSNumbers, textures : SUBSET {"map", "aoMap", "lightMap", "bumpMap"},
     color : {None, Some("ffffff"), Some("ff0000")}, colorSpace : {"", "srgb"}]

AlphaSamples ==
    {[opacity |-> Num(Unit), alphaTest |-> Num(0), transparent |-> FALSE, alphaMap |-> FALSE],
     [opacity |-> Num(1), alphaTest |-> Undefined, transparent |-> FALSE, alphaMap |-> TRUE],
     [opacity |-> NaN, alphaTest |-> Num(1), transparent |-> TRUE, alphaMap |-> FALSE]}

OtherSamples ==
    {[scalar |-> Num(1), textures |-> {}, color |-> Some("ffffff"), colorSpace |-> ""],
     [scalar |-> Undefined, textures |-> {"map", "aoMap"}, color |-> Some("ff0000"), colorSpace |-> ""],
     [scalar |-> Num(Unit + 1), textures |-> {"lightMap", "bumpMap"}, color |-> None, colorSpace |-> "srgb"]}

Material(alpha, other) ==
    [MeshStandardMaterial EXCEPT !.opacity = alpha.opacity, !.alphaTest = alpha.alphaTest,
         !.transparent = alpha.transparent,
         !.textures = other.textures \cup (IF alpha.alphaMap THEN {"alphaMap"} ELSE {}),
         !.aoMapIntensity = other.scalar, !.metalness = other.scalar, !.roughness = other.scalar,
         !.color = other.color, !.map.colorSpace = other.colorSpace]

Materials ==
    {Material(alpha, other) : alpha \in AlphaInputs, other \in OtherSamples}
        \cup {Material(alpha, other) : alpha \in AlphaSamples, other \in OtherInputs}

\* One material, an array of two materials, an object that is no material.
MaterialArguments ==
    {[array |-> FALSE, items |-> <<m>>] : m \in Materials}
        \cup {[array |-> TRUE, items |-> <<Material(a, o), Material(b, o)>>] : a, b \in AlphaSamples, o \in OtherSamples}
        \cup {[array |-> FALSE, items |-> <<[MeshStandardMaterial EXCEPT !.isMaterial = FALSE, !.alphaTest = Num(1)]>>]}

UvLayouts == {"plain", "uv", "uv2", "uv+uv2"}

\* #sanitizeMaterial(material, geometry): `built` keeps the arguments.
SanitizeMaterial ==
    /\ \E result \in {sanitizeMaterial(material, geometry)} :
           /\ material' = result.material
           /\ geometry' = result.geometry
    /\ built' = [op |-> "sanitizeMaterial", material |-> material, geometry |-> geometry]
    /\ UNCHANGED <<selVars, xfVars, im, jobs, ui>>

InitSanitize ==
    /\ InitApplication
    /\ InitImportManager
    /\ material \in MaterialArguments \cup {None}
    /\ geometry \in {Geometry(1, layout) : layout \in UvLayouts} \cup {None}
    /\ built = None

NextSanitize ==
    \/ SanitizeMaterial

SpecSanitize == InitSanitize /\ [][NextSanitize]_vars

\* The arguments of #cloneAndSplitMesh.  The groups of a geometry: none, one
\* group or two groups, inside the buffer or not, with a material index
\* that may lie beyond the materials.
GroupsOf(vertices) == [start : 0 .. vertices, count : 0 .. vertices, materialIndex : 0 .. 2]

GroupLists(vertices) ==
    {<<>>} \cup {<<a>> : a \in GroupsOf(vertices)} \cup {<<a, b>> : a, b \in GroupsOf(vertices)}

\* An index of `length` entries over the vertices of the geometry, the last
\* vertex first.
IndexOver(g, length) == [i \in 1 .. length |-> (length - i) % positionCount(g)]

\* Non-indexed geometries of 0 .. limit vertices, and geometries of two
\* vertices with an index of 0 .. limit entries.
SplitGeometries(limit) ==
    UNION {{[Geometry(vertices, "uv") EXCEPT !.groups = groups] : groups \in GroupLists(vertices)}
            \cup {[Geometry(2, "plain") EXCEPT !.index = Some(IndexOver(Geometry(2, "plain"), vertices)), !.groups = groups] :
                     groups \in GroupLists(vertices)} :
           vertices \in 0 .. limit}

\* One material, and arrays of one, two and three materials; an array may
\* hold an empty slot.
SplitMaterials ==
    {[array |-> FALSE, items |-> <<Glass>>],
     [array |-> TRUE, items |-> <<Phong>>],
     [array |-> TRUE, items |-> <<Glass, Phong>>],
     [array |-> TRUE, items |-> <<Phong, None>>],
     [array |-> TRUE, items |-> <<Glass, Phong, Glass>>]}

\* #cloneAndSplitMesh(child, transform) on the geometry and the material in
\* hand.  The method keeps nothing between two calls, so one call per
\* behaviour is followed.
CloneAndSplitMesh ==
    /\ built = None
    /\ built' = [op |-> "cloneAndSplitMesh",
                 clones |-> cloneAndSplitMesh(Child(1, <<"A">>, geometry, material, Compose(IdentityPose)), IdentityPose)]
    /\ UNCHANGED <<selVars, xfVars, im, jobs, material, geometry, ui>>

InitSplit ==
    /\ InitApplication
    /\ InitImportManager
    /\ material \in SplitMaterials
    /\ geometry \in SplitGeometries(MaxSplitVertices)
    /\ built = None

NextSplit ==
    \/ CloneAndSplitMesh

SpecSplit == InitSplit /\ [][NextSplit]_vars

\* The materials a parser hands over: Phong and Lambert materials with and
\* without shininess, roughness and metalness, glowing or not, and a
\* standard material that glows.
LegacyMaterials ==
    {[Phong EXCEPT !.type = type, !.shininess = shininess, !.roughness = roughness, !.metalness = metalness,
                   !.emissive = emissive.color, !.emissiveIntensity = emissive.intensity,
                   !.textures = emissive.textures, !.alphaTest = Num(0)] :
        type \in {"MeshPhongMaterial", "MeshLambertMaterial", "MeshStandardMaterial"},
        shininess \in JSNumbers,
        roughness \in {Undefined, Num(0), Num(Unit + 1)},
        metalness \in {Undefined, Num(Unit)},
        emissive \in {[color |-> "000000", intensity |-> Num(Unit), textures |-> {"map"}],
                      [color |-> "ffffff", intensity |-> Num(Unit + 1), textures |-> {"map", "emissiveMap", "aoMap"}]}}

\* #cloneMaterial(material) on the material in hand: `built` keeps the
\* argument.  One call per behaviour is followed.
CloneMaterial ==
    /\ built = None
    /\ material' = cloneMaterial(material)
    /\ built' = [op |-> "cloneMaterial", material |-> material]
    /\ UNCHANGED <<selVars, xfVars, im, jobs, geometry, ui>>

InitClone ==
    /\ InitApplication
    /\ InitImportManager
    /\ material \in {[array |-> FALSE, items |-> <<m>>] : m \in LegacyMaterials}
                        \cup {[array |-> TRUE, items |-> <<Glass, Phong>>], None}
    /\ geometry = None
    /\ built = None

NextClone ==
    \/ CloneMaterial

SpecClone == InitClone /\ [][NextClone]_vars

\* ------------------------------------------------------------ SpecImport
\* The panel hands every chosen file to importModel without awaiting the
\* one before; main.js catches and logs a rejection.
MaxImports == 2

ImportModel ==
    \E file \in Files :
        /\ Len(jobs) < MaxImports
        /\ jobs' = Append(jobs, startImport(file))
        /\ UNCHANGED <<selVars, xfVars, im, material, geometry, built, ui>>

\* file.arrayBuffer() resolves: call j goes on to #parseByExtension.
ArrayBufferResolves ==
    \E j \in DOMAIN jobs :
        /\ jobs[j].pc = "arrayBuffer"
        /\ \E parsed \in {parseBuffer(im, jobs[j])} :
              /\ im' = parsed.manager
              /\ jobs' = [jobs EXCEPT ![j] = parsed.job]
        /\ UNCHANGED <<selVars, xfVars, material, geometry, built, ui>>

\* #parseByExtension settles: call j adds its meshes or rejects.
ParseSettles ==
    \E j \in DOMAIN jobs :
        /\ jobs[j].pc = "parse"
        /\ \E settled \in {settle(im, jobs[j], j)} :
              /\ im' = settled.manager
              /\ jobs' = [jobs EXCEPT ![j] = settled.job]
              /\ \E s \in {registerEach(This, settled.meshes)} :
                    /\ meshMap' = s.meshMap
                    /\ selectedMeshes' = s.selectedMeshes
                    /\ lastSelectedId' = s.lastSelectedId
                    /\ liSelected' = s.liSelected
                    /\ dispatched' = s.events
              /\ lastCall' = IF settled.meshes = <<>> THEN lastCall
                             ELSE [op |-> "registerMesh", arg |-> settled.meshes[Len(settled.meshes)].uuid, flag |-> FALSE]
              /\ pose' = [mesh \in DOMAIN pose \cup {settled.meshes[k].uuid : k \in DOMAIN settled.meshes} |->
                             IF mesh \in DOMAIN pose THEN pose[mesh]
                             ELSE settled.meshes[CHOOSE k \in DOMAIN settled.meshes : settled.meshes[k].uuid = mesh].pose]
              /\ history' = [history EXCEPT !.handler = "importModel"]
        /\ UNCHANGED <<revision, tm, um, orbitEnabled, emitted, client, material, geometry, built, ui>>

InitImport ==
    /\ InitApplication
    /\ InitImportManager
    /\ Unprepared

NextImport ==
    \/ ImportModel
    \/ ArrayBufferResolves
    \/ ParseSettles

SpecImport == InitImport /\ [][NextImport]_vars

\* ------------------------------------------------------------ the page
\* The pose of node k of the model file of the page.
SessionPose(k) == CASE k = 1 -> InitialPose(1) [] k = 2 -> InitialPose(3) [] OTHER -> InitialPose(2)

\* A model file of one mesh per body.  With `extras`, the node of mesh 1
\* carries a userData entry under the key '__initialTransform' (the loaders
\* copy the extras of a node into its userData): the pose of another node.
SessionRoot(extras) ==
    Group(0, [k \in Bodies |->
                 [Child(k, <<"m">>, Geometry(1, "plain"), [array |-> FALSE, items |-> <<Glass>>], Compose(SessionPose(k)))
                     EXCEPT !.userData.initialTransform = IF extras /\ k = 1 THEN Some(SessionPose(2)) ELSE None]])

SessionFile(extras) == File(<<"m", ".", "g", "l", "b">>, Bytes("glb", FALSE, SessionRoot(extras)))

\* importModel(file) run to its end on the application as constructed.
importedFile(file) ==
    (CHOOSE result \in {settle(parsed.manager, parsed.job, 1) :
        parsed \in {parseBuffer([dracoLoader |-> None, gltfLoader |-> [dracoLoader |-> None],
                                 scene |-> <<>>, rows |-> <<>>, uuids |-> 0], startImport(file))}} : TRUE)

\* The page of main.js after one model file was imported: its meshes are
\* registered and in the scene, nothing is selected, the mode is 'none'.
pageOf(file) ==
    (CHOOSE result \in {
        [w |-> [Constructed EXCEPT !.pose = [mesh \in {done.meshes[k].uuid : k \in DOMAIN done.meshes} |->
                                               done.meshes[CHOOSE k \in DOMAIN done.meshes : done.meshes[k].uuid = mesh].pose]],
         desk |-> [inspector |-> NewInspector, transformRecentlyActive |-> FALSE, pointerDownPosition |-> None,
                   timers |-> <<>>, elapsed |-> None],
         s |-> [meshMap |-> [k \in DOMAIN done.meshes |-> done.meshes[k].uuid], selectedMeshes |-> {},
                lastSelectedId |-> Null, liSelected |-> {}, events |-> <<>>],
         manager |-> done.manager,
         job |-> done.job] :
        done \in {importedFile(file)}} : TRUE)

\* The page after a click on a mesh, with or without shift.
clickedOn(page, mesh, shiftKey) ==
    LET clicked == selectFromSceneB(page.s, mesh, shiftKey)
        placed == selectionListeners([w |-> page.w, desk |-> page.desk], page.manager.scene, clicked.events)
    IN [page EXCEPT !.w = placed.w, !.desk = placed.desk, !.s = [clicked EXCEPT !.events = <<>>]]

\* The page after the choice of a mode.
inMode(page, mode) ==
    LET moded == modeChange(page.w, page.manager.scene, page.desk, page.s.selectedMeshes, mode)
    IN [page EXCEPT !.w = [moded.w EXCEPT !.events = <<>>], !.desk = moded.desk]

\* The variables of a page.
Starts(page) ==
    /\ revision = "B"
    /\ im = page.manager
    /\ jobs = <<page.job>>
    /\ meshMap = page.s.meshMap
    /\ selectedMeshes = page.s.selectedMeshes
    /\ lastSelectedId = page.s.lastSelectedId
    /\ liSelected = page.s.liSelected
    /\ dispatched = <<>>
    /\ lastCall = [op |-> "registerMesh", arg |-> NBody, flag |-> FALSE]
    /\ tm = page.w.tm
    /\ um = page.w.um
    /\ pose = page.w.pose
    /\ orbitEnabled = page.w.orbitEnabled
    /\ emitted = <<>>
    /\ client = [snapshot |-> None, requested |-> <<>>, poseAtCapture |-> None]
    /\ history = [handler |-> "constructor", moves |-> 0, dragStart |-> None, previous |-> None]
    /\ Unprepared
    /\ ui = page.desk

\* The state a handler of the page leaves: the world and the desk of
\* `page`, the SelectionManager s, and the history h.
Served(page, s, h) ==
    /\ tm' = page.w.tm
    /\ um' = page.w.um
    /\ pose' = page.w.pose
    /\ orbitEnabled' = page.w.orbitEnabled
    /\ emitted' = page.w.events
    /\ ui' = page.desk
    /\ meshMap' = s.meshMap
    /\ selectedMeshes' = s.selectedMeshes
    /\ lastSelectedId' = s.lastSelectedId
    /\ liSelected' = s.liSelected
    /\ dispatched' = s.events
    /\ history' = h
    /\ UNCHANGED <<revision, lastCall, client, material, geometry, built>>

\* A handler of the TransformManager on the page, with the listeners of
\* main.js for the events it dispatched.
Transformed(w, h) ==
    /\ \E page \in {[w |-> w, desk |-> transformListeners(ui, w, im.scene, selectedMeshes, w.events)]} :
          Served(page, This, h)
    /\ UNCHANGED <<im, jobs>>

\* A call of the SelectionManager on the page, with the listener of
\* main.js for the events it dispatched.
Selected(s, desk, h) ==
    /\ Placeable(World, s.selectedMeshes)
    /\ \E page \in {selectionListeners([w |-> World, desk |-> desk], im.scene, s.events)} :
          Served(page, s, h)
    /\ UNCHANGED <<im, jobs>>

\* Pointer down on the attached gizmo: 'dragging-changed' (true).
GizmoPointerDown ==
    /\ ~tm.isDragging
    /\ tm.controls.object = "anchor"
    /\ Placeable(World, tm.currentSelection)
    /\ \E w \in {draggingChanged([World EXCEPT !.tm.controls.start = Some(tm.anchor)], TRUE)} :
          Transformed(w, [history EXCEPT !.handler = "dragStart",
                                         !.dragStart = Some([anchor |-> tm.anchor, pose |-> pose, members |-> tm.currentSelection])])

\* The most timers the model lets be pending.
MaxTimers == 2

\* Pointer up of the gizmo: 'dragging-changed' (false); from now the drag
\* has ended.
GizmoPointerUp ==
    /\ tm.isDragging
    /\ Len(ui.timers) < MaxTimers
    /\ \E w \in {draggingChanged(World, FALSE)} :
          \E page \in {[w |-> w, desk |-> [transformListeners(ui, w, im.scene, selectedMeshes, w.events) EXCEPT !.elapsed = Some(0)]]} :
             Served(page, This,
                    [history EXCEPT !.handler = "dragEnd", !.dragStart = None,
                                    !.previous = Some(history.dragStart[1].members)])
    /\ UNCHANGED <<im, jobs>>

\* Time passes.
Tick ==
    /\ tick(ui) # ui
    /\ ui' = tick(ui)
    /\ UNCHANGED <<selVars, xfVars, imVars>>

\* A timer that is due runs its callback.
TimerFires ==
    /\ ui.timers # <<>>
    /\ Head(ui.timers) = 0
    /\ ui' = timerFires(ui)
    /\ UNCHANGED <<selVars, xfVars, imVars>>

\* canvas 'pointerdown'
CanvasPointerDown ==
    /\ ui.pointerDownPosition = None
    /\ ui' = pointerDown(ui)
    /\ history' = [history EXCEPT !.handler = "pointerDown"]
    /\ UNCHANGED <<selVars, tm, um, pose, orbitEnabled, emitted, client, imVars>>

\* canvas 'pointerup': after a movement, on a mesh or on nothing, with or
\* without shift.
CanvasPointerUp ==
    \E movement \in {0, ClickSlop + 1}, target \in Range(meshMap) \cup {Null}, shiftKey \in BOOLEAN :
        /\ ui.pointerDownPosition # None
        /\ \E s \in {IF clicks(ui, World, movement) THEN selectFromSceneB(This, target, shiftKey) ELSE This} :
              Selected(s, [ui EXCEPT !.pointerDownPosition = None],
                       [history EXCEPT !.handler = "pointerUp", !.previous = Forget(@)])

\* The page with mesh 1 selected in translate mode.
InitPointer == \E page \in {inMode(clickedOn(pageOf(SessionFile(FALSE)), 1, FALSE), "translate")} : Starts(page)

NextPointer ==
    \/ GizmoPointerDown
    \/ GizmoPointerUp
    \/ Tick
    \/ TimerFires
    \/ CanvasPointerDown
    \/ CanvasPointerUp

SpecPointer == InitPointer /\ [][NextPointer]_vars

\* --------------------------------------------------- the inspector page
\* The meshes the model shows in the inspector: those the anchor can be
\* placed on whose rotation is one of the eight the inputs are read for.
Shown(w, selection) ==
    /\ Placeable(w, selection)
    /\ \A mesh \in selection : IsTurned(w.pose[mesh].r)

\* The meshes a commit of the inspector may leave: several selected meshes
\* are anchored at the centre of their boxes, which takes any scale, a zero
\* one too; a single mesh is anchored by its decomposed world matrix.
Committable(w, selection) ==
    IF Cardinality(selection) > 1
    THEN \A mesh \in selection :
             ColumnLengthSq(w.pose[mesh].r[1], w.pose[mesh].r[2]) = QOne /\ IsTurned(w.pose[mesh].r)
    ELSE Shown(w, selection)

\* A click on the row of a mesh in the list, with or without ctrl.
RowClick ==
    \E uuid \in Range(meshMap), withCtrl \in BOOLEAN :
        \E s \in {selectFromListB(This, uuid, withCtrl)} :
            /\ Shown(World, s.selectedMeshes)
            /\ Selected(s, ui, [history EXCEPT !.handler = "selectFromList", !.previous = Forget(@)])

\* A pointer move of the dragged gizmo: 'change'.
GizmoPointerMove ==
    /\ tm.isDragging
    /\ tm.controls.object = "anchor"
    /\ history.moves < MaxMoves
    /\ \E move \in GizmoMoves(tm.controls.mode) :
           \E moved \in {pointerMove(World, move)} :
               /\ Applicable(moved)
               /\ \E w \in {change(moved)} :
                     /\ Shown(w, selectedMeshes)
                     /\ Transformed(w, [history EXCEPT !.handler = "pointerMove", !.moves = @ + 1, !.previous = Forget(@)])

\* What the user types into an input of the inspector.
Texts(mode) ==
    CASE mode = "translate" -> {Typed(QInt(2)), Empty}
      [] mode = "rotate" -> {Typed(QInt(90)), Unreadable}
      [] OTHER -> {Typed(QInt(2)), Typed(Q(1, 0, 2))}

\* The inputs that keep a mesh in the plane of the model.
InPlane(mode, inputs) ==
    CASE mode = "translate" -> parse(inputs[3]) = QZero
      [] mode = "rotate" -> parse(inputs[1]) = QZero /\ parse(inputs[2]) = QZero /\ IsTurn(parse(inputs[3]))
      [] OTHER -> parse(inputs[3]) = QOne

\* The most undo entries at which the model still lets the inspector edit;
\* history.moves counts the edits, resets and undos as it counts the moves
\* of the gizmo.
MaxEdits == 1

\* The user types into one input and leaves it: 'change' on the input,
\* #commitChanges.
InputChange ==
    \E axis \in 1 .. 3 :
        \E text \in Texts(ui.inspector.mode) :
            \E typed \in {[ui.inspector EXCEPT !.inputs[axis] = text]} :
                /\ targetsOf(typed) # <<>>
                /\ InPlane(typed.mode, typed.inputs)
                /\ Len(um.stack) < MaxEdits
                /\ history.moves < MaxMoves
                /\ Committable(applyInputs(World, typed, targetsOf(typed)), selectedMeshes \cup Range(targetsOf(typed)))
                /\ \E done \in {commitChanges(World, typed, selectedMeshes)} :
                      Served([w |-> done.w, desk |-> [ui EXCEPT !.inspector = done.inspector]], This,
                             [history EXCEPT !.handler = "commitChanges", !.moves = @ + 1, !.previous = Forget(@)])
                /\ UNCHANGED <<im, jobs>>

\* A click on the enabled reset button: #resetTransform.
ResetClick ==
    /\ ~ui.inspector.resetDisabled
    /\ Len(um.stack) < MaxEdits
    /\ history.moves < MaxMoves
    /\ \E done \in {resetTransform(World, im.scene, ui.inspector, selectedMeshes)} :
          /\ Shown(done.w, selectedMeshes)
          /\ Served([w |-> done.w, desk |-> [ui EXCEPT !.inspector = done.inspector]], This,
                    [history EXCEPT !.handler = "resetTransform", !.moves = @ + 1, !.previous = Forget(@)])
    /\ UNCHANGED <<im, jobs>>

\* undoManager.undo()
UndoCall ==
    /\ um.stack # <<>> => history.moves < MaxMoves
    /\ \E w \in {undo(World)} :
          Served([w |-> w, desk |-> ui], This,
                 [history EXCEPT !.handler = "undo", !.moves = IF um.stack # <<>> THEN @ + 1 ELSE @, !.previous = Forget(@)])
    /\ UNCHANGED <<im, jobs>>

\* sceneManager.removeMesh and panel.removeMeshRow
removeMesh(manager, uuid) ==
    [manager EXCEPT !.scene = SelectSeq(@, LAMBDA mesh : mesh.uuid # uuid),
                    !.rows = SelectSeq(@, LAMBDA row : row.uuid # uuid)]

\* The delete button of a row: onDelete of importModel.
Delete ==
    \E uuid \in Range(meshMap) :
        \E manager \in {removeMesh(im, uuid)} :
            \E s \in {unregisterMesh(This, uuid)} :
                /\ Shown(World, s.selectedMeshes)
                /\ \E page \in {selectionListeners([w |-> World, desk |-> ui], manager.scene, s.events)} :
                      Served(page, s, [history EXCEPT !.handler = "onDelete", !.previous = Forget(@)])
                /\ im' = manager
                /\ UNCHANGED jobs

\* The page after the import of the file with extras, with one mesh
\* selected in translate mode.
InitInspector ==
    \E mesh \in Bodies :
        \E page \in {inMode(clickedOn(pageOf(SessionFile(TRUE)), mesh, FALSE), "translate")} : Starts(page)

NextInspector ==
    \/ GizmoPointerDown
    \/ GizmoPointerMove
    \/ GizmoPointerUp
    \/ InputChange
    \/ ResetClick
    \/ UndoCall

SpecInspector == InitInspector /\ [][NextInspector]_vars

\* The page in scale mode, nothing selected yet.
InitScale == \E page \in {inMode(pageOf(SessionFile(FALSE)), "scale")} : Starts(page)

NextScale ==
    \/ RowClick
    \/ InputChange
    \/ ResetClick

SpecScale == InitScale /\ [][NextScale]_vars

\* The page in translate mode, nothing selected yet.
InitDelete == \E page \in {inMode(pageOf(SessionFile(FALSE)), "translate")} : Starts(page)

NextDelete ==
    \/ RowClick
    \/ InputChange
    \/ UndoCall
    \/ Delete

SpecDelete == InitDelete /\ [][NextDelete]_vars

\* ------------------------------------------------- imports on the page
\* A file of one mesh.
ResumeFile == File(<<"a", ".", "o", "b", "j">>, Bytes("obj", FALSE, MeshRoot))

\* panel.bindImport: importModel(file) is called for that file.
ImportOne ==
    /\ Len(jobs) < MaxImports
    /\ jobs' = Append(jobs, startImport(ResumeFile))
    /\ UNCHANGED <<selVars, xfVars, im, material, geometry, built, ui>>

\* The page after a first import: nothing, one mesh or two meshes are
\* selected, in any mode.
InitResume ==
    \E mode \in Modes :
        \E page \in {pageOf(SessionFile(FALSE)), clickedOn(pageOf(SessionFile(FALSE)), 1, FALSE),
                      clickedOn(clickedOn(pageOf(SessionFile(FALSE)), 1, FALSE), 2, TRUE)} :
            \E moded \in {inMode(page, mode)} : Starts(moded)

NextResume ==
    \/ ImportOne
    \/ ArrayBufferResolves
    \/ ParseSettles
    \/ GizmoPointerDown
    \/ GizmoPointerUp

SpecResume == InitResume /\ [][NextResume]_vars

\* ------------------------------------------------------------------ claims
Registered == Range(meshMap)

\* C1: after any sequence of SelectionManager calls every selected mesh is a
\* currently registered mesh (so unregistering a selected mesh evicts it).
C1_SelectionIsRegistered == selectedMeshes \subseteq Registered

\* C1 witness: an unregisterMesh call has just removed a registered mesh and
\* other meshes are still selected.
C1_Witness ==
    /\ lastCall.op = "unregisterMesh"
    /\ lastCall.arg \notin Registered
    /\ Len(dispatched) = 1
    /\ selectedMeshes # {}

\* C2: a call that changes the membership of the selection dispatches exactly
\* one 'selectionchange' event, whose detail carries the new selection.
C2_ChangeDispatchesOnce ==
    [][selectedMeshes' # selectedMeshes =>
          /\ Len(dispatched') = 1
          /\ dispatched'[1].type = "selectionchange"
          /\ dispatched'[1].detail.selectedMeshes = selectedMeshes']_vars

\* C2 witness: clearSelection has dispatched, which it does only when the
\* selection was not empty before the call.
C2_Witness == lastCall.op = "clearSelection" /\ Len(dispatched) = 1 /\ selectedMeshes = {}

C3_Silent(c) ==
    \/ c.op \in {"registerMesh", "clearSelection", "removeFromSelection"}
    \/ c.op = "unregisterMesh" /\ c.arg \notin Registered
    \/ c.op = "selectFromScene" /\ findRegisteredMesh(This, c.arg) = Null
    \/ c.op = "selectFromList" /\ c.arg \notin Registered
    \/ c.op = "selectAll" /\ meshMap = <<>>

C4_Target(c) ==
    IF c.op = "selectFromScene" /\ c.flag THEN findRegisteredMesh(This, c.arg)
    ELSE IF /\ c.op = "selectFromList" /\ c.flag /\ c.arg \in Registered
            /\ (revision = "B" \/ lastSelectedId \notin Registered)
         THEN c.arg
         ELSE Null

\* C4 as stated: additive selection toggles, it adds an unselected mesh and
\* removes a selected one, leaving the other members unchanged.
C4_AdditiveToggles ==
    [][LET m == C4_Target(lastCall')
       IN m # Null =>
            selectedMeshes' = IF m \in selectedMeshes THEN selectedMeshes \ {m} ELSE selectedMeshes \cup {m}]_vars

\* C4 amended: additive selection only adds; an unselected registered mesh
\* joins the selection, an already selected one stays selected, and the
\* other members are unchanged in both cases.
C4_AdditiveAdds ==
    [][LET m == C4_Target(lastCall')
       IN m # Null => selectedMeshes' = selectedMeshes \cup {m}]_vars

\* C4 witness: an additive scene click on a child of a registered mesh has
\* left two or more meshes selected, the clicked mesh among them.
C4_Witness ==
    /\ lastCall.op = "selectFromScene"
    /\ lastCall.flag
    /\ lastCall.arg \in Children
    /\ Parent(lastCall.arg) \in selectedMeshes
    /\ Cardinality(selectedMeshes) >= 2

\* The contiguous registration-order slice between two registered ids,
\* inclusive, whichever comes first.
C5_Slice(a, b) ==
    {meshMap[i] : i \in {j \in 1 .. Len(meshMap) :
        \/ IndexOf(meshMap, a) <= j /\ j <= IndexOf(meshMap, b)
        \/ IndexOf(meshMap, b) <= j /\ j <= IndexOf(meshMap, a)}}

\* A revision A list click with the range modifier between two registered ids.
C5_RangeCall(c) ==
    /\ revision = "A"
    /\ c.op = "selectFromList"
    /\ c.flag
    /\ c.arg \in Registered
    /\ lastSelectedId \in Registered

\* C5 as stated: a range select leaves selected exactly the slice between
\* lastSelectedId and the clicked id.
C5_RangeSelectsExactlySlice ==
    [][C5_RangeCall(lastCall') => selectedMeshes' = C5_Slice(lastSelectedId, lastCall'.arg)]_vars

\* C5 amended: a range select adds exactly the slice between lastSelectedId
\* and the clicked id to the selection (what was selected stays selected),
\* whichever of the two ids was registered first.
C5_RangeAddsSlice ==
    [][C5_RangeCall(lastCall') =>
          selectedMeshes' = selectedMeshes \cup C5_Slice(lastSelectedId, lastCall'.arg)]_vars

\* C5 witness: a range click on a mesh registered before the anchor has run
\* (lastSelectedId is then the slice's last mesh, not the clicked one) and
\* the whole slice of three is selected.
C5_Witness ==
    /\ revision = "A"
    /\ lastCall.op = "selectFromList"
    /\ lastCall.flag
    /\ lastCall.arg \in Registered
    /\ lastSelectedId \in Registered
    /\ IndexOf(meshMap, lastCall.arg) + 2 = IndexOf(meshMap, lastSelectedId)
    /\ C5_Slice(lastCall.arg, lastSelectedId) \subseteq selectedMeshes

\* The meshes with a cached relative pose.
Cached == IF tm.dragState = None THEN {} ELSE DOMAIN tm.dragState[1].meshStates

\* C6 as stated: after a 'change' of a drag that started with the anchor at
\* pose P0 and has the anchor at P1, the world matrix of every member is
\* P1 * inverse(P0) * (the member's world matrix at drag start).
C6_MemberFollowsAnchor ==
    (tm.isDragging /\ history.handler \in {"pointerMove", "change"}) =>
        \A mesh \in history.dragStart[1].members :
            matrixWorld(World, mesh) =
                MMul(MMul(Compose(tm.anchor), MInvert(Compose(history.dragStart[1].anchor))),
                     Compose(history.dragStart[1].pose[mesh]))

\* C7: whenever the TransformManager is not dragging, dragState is null.
C7_NoCacheWhenIdle == ~tm.isDragging => tm.dragState = None

\* C7 witness: a drag that cached the relative poses of its members has
\* just ended and the meshes are still selected.
C7_Witness ==
    /\ history.handler = "dragEnd"
    /\ ~tm.isDragging
    /\ history.previous # None
    /\ history.previous[1] # {}
    /\ history.previous[1] = tm.currentSelection

\* C8: right after a drag start the meshes with a cached relative pose are
\* exactly the meshes of the current selection.
C8_CacheIsSelection ==
    history.handler = "dragStart" => (tm.dragState # None /\ Cached = tm.currentSelection)

\* C8 witness: a drag has started on a selection that lacks a member of the
\* previous drag and has a mesh the previous drag had not.
C8_Witness ==
    /\ history.handler = "dragStart"
    /\ tm.isDragging
    /\ history.previous # None
    /\ history.previous[1] \ tm.currentSelection # {}
    /\ tm.currentSelection \ history.previous[1] # {}
    /\ Cached = tm.currentSelection

C10_Requested == {client.requested[i] : i \in 1 .. Len(client.requested)} \ {Null}

\* C10: commitSnapshot of a captured snapshot leaves the stack as it is when
\* every captured mesh still has its captured pose; otherwise it pushes one
\* entry (evicting the oldest at the limit) that holds, once for each
\* distinct mesh passed to captureSnapshot and for no other mesh, the pose
\* the mesh had at the capture.
C10_CommitPushesRequested ==
    [][(history'.handler = "commitSnapshot" /\ client.snapshot # None) =>
          IF \A mesh \in C10_Requested : pose[mesh] = client.poseAtCapture[1][mesh]
          THEN um'.stack = um.stack
          ELSE /\ um'.stack # <<>>
               /\ um'.stack = Append(IF Len(um.stack) >= um.limit THEN shift(um.stack) ELSE um.stack,
                                     um'.stack[Len(um'.stack)])
               /\ Len(um'.stack[Len(um'.stack)]) = Cardinality(C10_Requested)
               /\ \A mesh \in C10_Requested :
                      \E i \in 1 .. Len(um'.stack[Len(um'.stack)]) :
                          um'.stack[Len(um'.stack)][i] =
                              [mesh |-> mesh,
                               position |-> client.poseAtCapture[1][mesh].p,
                               quaternion |-> client.poseAtCapture[1][mesh].r,
                               scale |-> client.poseAtCapture[1][mesh].s]]_vars

\* C10 witness: a commit has pushed an entry of two meshes, captured from an
\* array that named one of them twice, and one of them has moved since.
C10_Witness ==
    /\ history.handler = "commitSnapshot"
    /\ um.stack # <<>>
    /\ Len(um.stack[Len(um.stack)]) = 2
    /\ um.stack[Len(um.stack)][1].mesh = 2
    /\ um.stack[Len(um.stack)][2].mesh = 1
    /\ \E i \in 1 .. 2 :
           um.stack[Len(um.stack)][i].quaternion # pose[um.stack[Len(um.stack)][i].mesh].r

\* C11 as stated: after any sequence of commitSnapshot, undo and clear calls
\* the stack holds at most `limit` entries.
C11_StackBounded == Len(um.stack) <= um.limit

\* C12: undo pops the entry committed last and gives each mesh of that entry
\* the position, quaternion and scale the entry holds, leaving the other
\* meshes alone; an undo that directly follows the commit of a changed
\* snapshot leaves every captured mesh at the pose it had at the capture.
C12_UndoRestoresLast ==
    [][(history'.handler = "undo" /\ um.stack # <<>>) =>
          /\ um'.stack = SubSeq(um.stack, 1, Len(um.stack) - 1)
          /\ \A i \in 1 .. Len(um.stack[Len(um.stack)]) :
                 pose'[um.stack[Len(um.stack)][i].mesh] =
                     [p |-> um.stack[Len(um.stack)][i].position,
                      r |-> um.stack[Len(um.stack)][i].quaternion,
                      s |-> um.stack[Len(um.stack)][i].scale]
          /\ \A mesh \in DOMAIN pose :
                 (\A i \in 1 .. Len(um.stack[Len(um.stack)]) : um.stack[Len(um.stack)][i].mesh # mesh)
                     => pose'[mesh] = pose[mesh]
          /\ (history.handler = "commitSnapshot" /\ client.poseAtCapture # None) =>
                 \A mesh \in C10_Requested : pose'[mesh] = client.poseAtCapture[1][mesh]]_vars

\* C12 witness: an undo has popped the newer of two entries, the older one
\* is still on the stack, and a mesh of the older entry is back at a pose
\* other than the one that entry holds.
C12_Witness ==
    /\ history.handler = "undo"
    /\ Len(um.stack) = 1
    /\ client.poseAtCapture # None
    /\ \A mesh \in C10_Requested : pose[mesh] = client.poseAtCapture[1][mesh]
    /\ C10_Requested = {1, 2}
    /\ \E i \in 1 .. Len(um.stack[1]) : um.stack[1][i].quaternion # pose[um.stack[1][i].mesh].r

\* The ranges lie inside a buffer of `vertices` vertices.
C17_InBounds(ranges, vertices) == \A i \in DOMAIN ranges : ranges[i].start + ranges[i].count <= vertices

C17_NonOverlapping(ranges) ==
    \A i, j \in DOMAIN ranges :
        i < j => \/ ranges[i].start + ranges[i].count <= ranges[j].start
                 \/ ranges[j].start + ranges[j].count <= ranges[i].start

\* Vertex v of range i of the repacked attribute equals vertex start + v of
\* the source attribute, the ranges following each other without gaps.
C17_Concatenated(repacked, source, ranges) ==
    /\ repacked.itemSize = source.itemSize
    /\ Len(repacked.array) = sumOfCounts(ranges) * source.itemSize
    /\ \A i \in DOMAIN ranges : \A v \in 0 .. ranges[i].count - 1 : \A c \in 1 .. source.itemSize :
           repacked.array[(sumOfCounts(SubSeq(ranges, 1, i - 1)) + v) * source.itemSize + c]
               = source.array[(ranges[i].start + v) * source.itemSize + c]

\* C17: for non-overlapping in-bounds ranges of a non-indexed geometry,
\* #buildGeometryFromRanges returns a geometry of as many vertices as the
\* ranges count together, every attribute and every morph attribute of which
\* is the concatenation of the ranges' vertices in range order; the single
\* range [0, vertexCount) reproduces every array.
C17_RepackComplete ==
    (/\ built # None
     /\ built.op = "buildGeometryFromRanges"
     /\ C17_InBounds(built.ranges, positionCount(geometry))
     /\ C17_NonOverlapping(built.ranges))
    => /\ positionCount(built.result) = sumOfCounts(built.ranges)
       /\ built.result.drawRange = [start |-> 0, count |-> sumOfCounts(built.ranges)]
       /\ DOMAIN built.result.attributes = DOMAIN geometry.attributes
       /\ \A i \in DOMAIN geometry.attributes :
              /\ built.result.attributes[i].name = geometry.attributes[i].name
              /\ C17_Concatenated(built.result.attributes[i], geometry.attributes[i], built.ranges)
       /\ DOMAIN built.result.morphAttributes = DOMAIN geometry.morphAttributes
       /\ \A k \in DOMAIN geometry.morphAttributes :
              /\ DOMAIN built.result.morphAttributes[k].targets = DOMAIN geometry.morphAttributes[k].targets
              /\ \A t \in DOMAIN geometry.morphAttributes[k].targets :
                     C17_Concatenated(built.result.morphAttributes[k].targets[t],
                                      geometry.morphAttributes[k].targets[t], built.ranges)
       /\ built.ranges = <<[start |-> 0, count |-> positionCount(geometry)]>>
              => /\ built.result.attributes = geometry.attributes
                 /\ built.result.morphAttributes = geometry.morphAttributes

\* Two non-empty ranges, the later part of the buffer first, repacked from a
\* geometry with a morph target.
C17_Witness ==
    /\ built # None
    /\ built.op = "buildGeometryFromRanges"
    /\ geometry.morphAttributes # <<>>
    /\ Len(built.ranges) = 2
    /\ built.ranges[1].count > 0
    /\ built.ranges[2].count > 0
    /\ built.ranges[2].start + built.ranges[2].count <= built.ranges[1].start
    /\ C17_InBounds(built.ranges, positionCount(geometry))

\* C18: a pass of #sanitizeMaterial over a material and a geometry that the
\* previous call sanitized changes neither the material (texture slots,
\* color, scalars, flags, alpha mode, base-color backup, version) nor the
\* geometry (its uv attributes).
C18_SanitizeIdempotent ==
    [][(built # None /\ built.op = "sanitizeMaterial") => (material' = material /\ geometry' = geometry)]_vars

\* A second pass was made over a material the first pass had changed, with a
\* geometry for which the first pass made uv2.
C18_Witness ==
    /\ built # None
    /\ built.op = "sanitizeMaterial"
    /\ material # None
    /\ built.material = material
    /\ material.items[1].version > 0
    /\ material.items[1].userData.baseColorBackup = Some("ff0000")
    /\ material.items[1].color = Some("ffffff")
    /\ geometry # None
    /\ hasAttribute(geometry, "uv2")

\* The material came out of sanitization as an alpha-masked one.
C19_Masked(m) ==
    /\ m.userData.alphaMode = Some("MASK")
    /\ m.depthWrite
    /\ ~m.transparent
    /\ m.blending = "NoBlending"

\* C19 as claimed: a material whose alphaTest is greater than 0 (a positive
\* number, finite or not) comes out of #sanitizeMaterial with alphaMode
\* 'MASK', depthWrite true, transparent false and no blending, whatever its
\* opacity, transparent flag and alpha map are.
C19_PositiveAlphaTestMasks ==
    (built # None /\ built.op = "sanitizeMaterial" /\ built.material # None)
    => \A i \in DOMAIN built.material.items :
           (/\ built.material.items[i].isMaterial
            /\ \/ built.material.items[i].alphaTest.kind = "Infinity"
               \/ (built.material.items[i].alphaTest.kind = "finite" /\ built.material.items[i].alphaTest.v > 0))
           => C19_Masked(material.items[i])

\* C19 amended: a material whose alphaTest is a finite number greater than 0
\* comes out of #sanitizeMaterial with alphaMode 'MASK', depthWrite true,
\* transparent false and no blending, whatever its opacity, transparent flag
\* and alpha map are.
C19_FiniteAlphaTestMasks ==
    (built # None /\ built.op = "sanitizeMaterial" /\ built.material # None)
    => \A i \in DOMAIN built.material.items :
           (/\ built.material.items[i].isMaterial
            /\ built.material.items[i].alphaTest.kind = "finite"
            /\ built.material.items[i].alphaTest.v > 0)
           => C19_Masked(material.items[i])

\* A material with a positive alphaTest, opacity below 1, the transparent
\* flag and an alpha map was sanitized.
C19_Witness ==
    /\ built # None
    /\ built.op = "sanitizeMaterial"
    /\ built.material # None
    /\ built.material.items[1].isMaterial
    /\ built.material.items[1].alphaTest = Num(1)
    /\ built.material.items[1].opacity = Num(1)
    /\ built.material.items[1].transparent
    /\ "alphaMap" \in built.material.items[1].textures
    /\ C19_Masked(material.items[1])

\* The groups the claim is about: the node has several materials, and no two
\* of its groups share a vertex.
C20_MultiMaterial == material # None /\ material.array /\ Len(material.items) > 1

C20_NonOverlapping ==
    \A i, j \in DOMAIN geometry.groups :
        i < j => \/ geometry.groups[i].start + geometry.groups[i].count <= geometry.groups[j].start
                 \/ geometry.groups[j].start + geometry.groups[j].count <= geometry.groups[i].start

\* The material indices the groups reference.
C20_Indices == {geometry.groups[i].materialIndex : i \in DOMAIN geometry.groups}

\* The vertex count of the non-indexed source geometry.
C20_SourceCount == IF geometry.index # None THEN Len(geometry.index[1]) ELSE positionCount(geometry)

RECURSIVE C20_Sum(_)
C20_Sum(clones) == IF clones = <<>> THEN 0 ELSE positionCount(Head(clones).geometry) + C20_Sum(Tail(clones))

C20_Counted ==
    /\ Len(built.clones) <= Cardinality(C20_Indices)
    /\ \A i \in DOMAIN built.clones : positionCount(built.clones[i].geometry) > 0
    /\ C20_Sum(built.clones) = C20_SourceCount

\* C20 as claimed: a multi-material node whose groups are non-overlapping
\* and reference M distinct material indices yields at most M records, each
\* with at least one vertex, whose vertex counts sum to the vertex count of
\* the non-indexed source geometry.
C20_SplitCount ==
    (built # None /\ built.op = "cloneAndSplitMesh" /\ C20_MultiMaterial /\ C20_NonOverlapping)
    => C20_Counted

\* Every vertex of the non-indexed source lies in a group, every group lies
\* inside the buffer, and every material a group refers to exists.
C20_Partition ==
    /\ C20_SourceCount > 0
    /\ \A i \in DOMAIN geometry.groups : geometry.groups[i].start + geometry.groups[i].count <= C20_SourceCount
    /\ \A v \in 0 .. C20_SourceCount - 1 : \E i \in DOMAIN geometry.groups :
           geometry.groups[i].start <= v /\ v < geometry.groups[i].start + geometry.groups[i].count
    /\ \A i \in DOMAIN geometry.groups :
           material.items[Min(Len(material.items) - 1, geometry.groups[i].materialIndex) + 1] # None

\* C20 amended: a multi-material node with at least one vertex whose groups
\* are non-overlapping, lie inside the non-indexed buffer, together cover
\* every vertex of it and refer to materials that exist yields at most M
\* records for M distinct material indices, each with at least one vertex,
\* whose vertex counts sum to the vertex count of the non-indexed source.
C20_SplitCountOfPartition ==
    (built # None /\ built.op = "cloneAndSplitMesh" /\ C20_MultiMaterial /\ C20_NonOverlapping /\ C20_Partition)
    => C20_Counted

\* An indexed node with two materials was split into two records by two
\* groups that partition its vertices, the second material first.
C20_Witness ==
    /\ built # None
    /\ built.op = "cloneAndSplitMesh"
    /\ C20_MultiMaterial
    /\ C20_NonOverlapping
    /\ C20_Partition
    /\ geometry.index # None
    /\ Len(geometry.groups) = 2
    /\ geometry.groups[1].materialIndex = 1
    /\ geometry.groups[2].materialIndex = 0
    /\ Len(built.clones) = 2
    /\ C20_SourceCount = MaxSplitVertices

SupportedExtensions == {<<"g", "l", "t", "f">>, <<"g", "l", "b">>, <<"f", "b", "x">>, <<"o", "b", "j">>}

\* The name has no extension, or one that is none of .gltf, .glb, .fbx, .obj.
C13_Unsupported(fileName) ==
    \/ lastDot(fileName, {"."}) = 0
    \/ toLowerCase(SubSeq(fileName, lastDot(fileName, {"."}) + 1, Len(fileName))) \notin SupportedExtensions

\* C13: importModel of a file whose extension is missing or is none of the
\* four supported ones fails with an unsupported-format error before any of
\* the file's bytes are read: file.arrayBuffer() is never called for it.
C13_UnsupportedFailsUnread ==
    \A j \in DOMAIN jobs :
        C13_Unsupported(jobs[j].file.name)
            => /\ ~jobs[j].arrayBuffer
               /\ jobs[j].pc = "rejected"
               /\ jobs[j].error \in {Some("Unsupported file format"), Some("Unsupported file extension")}
               /\ jobs[j].attempts = <<>>

\* A call for a file with a present but unsupported extension has rejected.
C13_Witness ==
    \E j \in DOMAIN jobs :
        /\ C13_Unsupported(jobs[j].file.name)
        /\ lastDot(jobs[j].file.name, {"."}) # 0
        /\ jobs[j].pc = "rejected"

\* The format parser was called for the job and rejected the bytes.
C14_ParserRejected(job) ==
    /\ job.outcome # None
    /\ job.attempts # <<>>
    /\ ~job.outcome[1].ok

\* The uuids of the records whose importModel call had an accepting parser
\* and has resolved.
C14_Imported ==
    {im.scene[k].uuid : k \in {i \in DOMAIN im.scene :
        /\ im.scene[i].import \in DOMAIN jobs
        /\ jobs[im.scene[i].import].pc = "resolved"
        /\ jobs[im.scene[i].import].outcome # None
        /\ jobs[im.scene[i].import].outcome[1].ok}}

\* C14: when the format parser rejects a file, importModel rejects to its
\* caller with the parser's error and adds nothing: the step that settles the
\* call leaves the scene's meshes, the selection registry and the panel's
\* rows as they were, and no record in any of the three is of such a call.
C14_RejectedParseAddsNothing ==
    /\ [][\A j \in DOMAIN jobs :
            (jobs[j].pc = "parse" /\ C14_ParserRejected(jobs[j]) /\ jobs'[j] # jobs[j])
                => /\ jobs'[j].pc = "rejected"
                   /\ jobs'[j].error = Some(jobs[j].outcome[1].error)
                   /\ im'.scene = im.scene
                   /\ im'.rows = im.rows
                   /\ meshMap' = meshMap]_vars
    /\ [](/\ \A j \in DOMAIN jobs :
                C14_ParserRejected(jobs[j]) => jobs[j].pc \in {"parse", "rejected"}
          /\ {im.scene[k].uuid : k \in DOMAIN im.scene} \subseteq C14_Imported
          /\ Range(meshMap) \subseteq C14_Imported
          /\ {im.rows[k].uuid : k \in DOMAIN im.rows} \subseteq C14_Imported)

\* A call whose parser rejected the bytes has rejected, after another call
\* has added its meshes.
C14_Witness ==
    /\ im.scene # <<>>
    /\ \E j \in DOMAIN jobs :
          /\ C14_ParserRejected(jobs[j])
          /\ jobs[j].pc = "rejected"
          /\ j > 1

\* The parser call failed because the file needs the decompressor and the
\* loader had none.
C15_NeedsDecompressor(result) == ~result.ok /\ result.error = NoDracoLoader

\* C15: when the first glTF/GLB parse attempt of a call fails because the
\* decompressor was required but not attached, the call attaches a
\* decompressor and parses a second time, once; it rejects only if the
\* second attempt fails too.
C15_RetriesOnce ==
    \A j \in DOMAIN jobs :
        (/\ jobs[j].pc \in {"resolved", "rejected"}
         /\ jobs[j].attempts # <<>>
         /\ C15_NeedsDecompressor(jobs[j].attempts[1]))
            => /\ Len(jobs[j].attempts) = 2
               /\ im.gltfLoader.dracoLoader # None
               /\ (jobs[j].pc = "rejected") = ~jobs[j].attempts[2].ok

\* The place of node `id` in the traversal of the scene graph that call j
\* parsed.
C16_Visit(j, id) ==
    CHOOSE i \in DOMAIN traverse(jobs[j].outcome[1].root) : traverse(jobs[j].outcome[1].root)[i].id = id

\* Record a comes before record b of the same call: its node is visited
\* earlier, or it is an earlier part of the same node.
C16_Before(a, b) ==
    \/ C16_Visit(a.import, a.node) < C16_Visit(b.import, b.node)
    \/ a.node = b.node /\ a.part < b.part

C16_Record(uuid) == CHOOSE r \in Range(im.scene) : r.uuid = uuid

C16_InOrder(uuids) ==
    \A x, y \in DOMAIN uuids :
        (x < y /\ C16_Record(uuids[x]).import = C16_Record(uuids[y]).import)
            => C16_Before(C16_Record(uuids[x]), C16_Record(uuids[y]))

\* C16: within one file's import the mesh records are added to the scene and
\* registered in the selection registry (and listed in the panel) in the
\* order of the scene-graph traversal: the records of a node visited earlier
\* come before those of a node visited later, the parts of one node in part
\* order.
C16_TraversalOrder ==
    /\ C16_InOrder([k \in DOMAIN im.scene |-> im.scene[k].uuid])
    /\ C16_InOrder(meshMap)
    /\ C16_InOrder([k \in DOMAIN im.rows |-> im.rows[k].uuid])

\* Two calls have added their records, one of them those of a graph with a
\* node of two parts and two more nodes.
C16_Witness ==
    /\ Len(jobs) = 2
    /\ \A j \in DOMAIN jobs : jobs[j].pc = "resolved"
    /\ \E a, b, c \in Range(im.scene) :
          /\ a.import = 2 /\ b.import = 2 /\ c.import = 2
          /\ a.node = b.node /\ a.part = 1 /\ b.part = 2
          /\ c.node # a.node
          /\ Len(meshMap) > 4

\* C29: in every reachable state of the SelectionManager lastSelectedId is
\* null or the id of a registered mesh, so a range selection never starts
\* from an unregistered anchor.
C29_AnchorIsRegistered == lastSelectedId = Null \/ lastSelectedId \in Registered

\* C28: after any sequence of setMode and updateAnchorFromSelection calls
\* the gizmo is visible and attached to the anchor exactly when the mode is
\* not 'none' and the current selection is not empty.
C28_GizmoShownIffUsable ==
    /\ (tm.controls.visible /\ tm.controls.object = "anchor") = (tm.mode # "none" /\ tm.currentSelection # {})
    /\ tm.controls.visible = (tm.controls.object = "anchor")

\* setMode has shown the gizmo for a selection of two meshes.
C28_Witness ==
    /\ history.handler = "setMode"
    /\ tm.mode = "scale"
    /\ Cardinality(tm.currentSelection) = 2
    /\ tm.controls.visible

\* The 'transformchange' events among the events a handler dispatched.
C27_Changes(events) == SelectSeq(events, LAMBDA e : e.type = "transformchange")

\* C27: while Dragging a manipulation update dispatches one
\* 'transformchange' event and leaves the undo stack as it is; from drag
\* start up to drag end no undo entry is pushed; and no handler that runs
\* while Idle dispatches 'transformchange'.
C27_UpdateNotifiesWithoutCommit ==
    [][/\ (tm.isDragging /\ history'.handler \in {"pointerMove", "change"})
            => (Len(C27_Changes(emitted')) = 1 /\ um' = um)
       /\ tm'.isDragging => um' = um
       /\ ~tm.isDragging => C27_Changes(emitted') = <<>>]_vars

\* A pointer move of a second drag has notified, with the entry of the
\* first drag on the undo stack.
C27_Witness ==
    /\ tm.isDragging
    /\ history.handler = "pointerMove"
    /\ Len(C27_Changes(emitted)) = 1
    /\ Len(um.stack) = 1

\* C23: the anchor is re-placed from the selection only while Idle: a
\* selection change that arrives while a drag is in progress leaves the
\* anchor where the drag has put it.
C23_AnchorKeptWhileDragging ==
    [][(tm.isDragging /\ history'.handler = "updateAnchorFromSelection") => tm'.anchor = tm.anchor]_vars

\* ---------------------------------------------------------------- C25
\* The import call that added the record of a registered mesh.
C25_ImportOf(uuid) == im.scene[CHOOSE k \in DOMAIN im.scene : im.scene[k].uuid = uuid].import

\* C25: the records of one import call stand next to each other in the
\* registration order: between two records of the same call there is no
\* record of another call, in whatever order the reads and parses of the
\* concurrent calls complete.
C25_ImportsAreContiguous ==
    \A i, j, k \in DOMAIN meshMap :
        (i < j /\ j < k /\ C25_ImportOf(meshMap[i]) = C25_ImportOf(meshMap[k]))
            => C25_ImportOf(meshMap[j]) = C25_ImportOf(meshMap[i])

\* Two concurrent calls have each registered several records, and the call
\* started last was registered first.
C25_Witness ==
    /\ Len(jobs) = 2
    /\ \A j \in DOMAIN jobs : jobs[j].pc = "resolved" /\ Cardinality({k \in DOMAIN meshMap : C25_ImportOf(meshMap[k]) = j}) >= 2
    /\ C25_ImportOf(meshMap[1]) = 2

\* ---------------------------------------------------------------- C24
\* A gizmo drag is in progress, or the last one ended less than 50 ms ago.
C24_Guarded == tm.isDragging \/ (ui.elapsed # None /\ ui.elapsed[1] < Delay)

\* C24: from the start of a gizmo drag until 50 ms after its end,
\* isDragging or transformRecentlyActive is true, and a canvas pointer-up
\* leaves the selection as it is, whatever drags and timer callbacks came
\* before.
C24_ClicksIgnoredAroundDrags ==
    /\ [](C24_Guarded => (tm.isDragging \/ ui.transformRecentlyActive))
    /\ [][(C24_Guarded /\ history'.handler = "pointerUp" /\ ui.pointerDownPosition # None)
             => UNCHANGED <<selectedMeshes, lastSelectedId>>]_vars

\* ---------------------------------------------------------------- C21
\* The inputs after the user typed `text` into the input of `axis`.
C21_Typed(axis, text) == [ui.inspector.inputs EXCEPT ![axis] = text]

\* C21: a commit of the inspector in scale mode with several meshes
\* selected sets the scale of every selected mesh to the one value read
\* from the inputs, whatever scale each mesh had and wherever the anchor
\* was.
C21_MultiScaleIsAbsolute ==
    [][(history'.handler = "commitChanges" /\ ui.inspector.mode = "scale"
           /\ Cardinality(ui.inspector.currentSelection) > 1)
        => \E axis \in 1 .. 3 : \E text \in Texts("scale") :
              \A mesh \in ui.inspector.currentSelection :
                  pose'[mesh].s = V(parse(C21_Typed(axis, text)[1]), parse(C21_Typed(axis, text)[2]))]_vars

\* A commit has given two selected meshes of different scales one scale
\* that neither had before.
C21_Witness ==
    /\ history.handler = "commitChanges"
    /\ tm.mode = "scale"
    /\ selectedMeshes = {1, 2}
    /\ pose[1].s = pose[2].s
    /\ pose[1].s # SessionPose(1).s
    /\ pose[2].s # SessionPose(2).s

\* ---------------------------------------------------------------- C22
\* The record of a mesh in the scene; its pose is the pose at import.
C22_Record(mesh) == im.scene[CHOOSE k \in DOMAIN im.scene : im.scene[k].uuid = mesh]

\* C22: the initial transform of every record is, after any drags, edits,
\* resets and undos, the pose the record had when it was imported, and a
\* reset gives the mesh that pose.
C22_ResetRestoresImportPose ==
    /\ [](\A k \in DOMAIN im.scene : im.scene[k].userData.initialTransform = Some(im.scene[k].pose))
    /\ [][history'.handler = "resetTransform"
             => pose'[ui.inspector.activeMesh] = C22_Record(ui.inspector.activeMesh).pose]_vars

\* ---------------------------------------------------------------- C30
\* The meshes the next undo() restores and returns.
C30_Undone == IF um.stack = <<>> THEN {} ELSE {um.stack[Len(um.stack)][i].mesh : i \in DOMAIN um.stack[Len(um.stack)]}

\* C30: undo() neither changes nor returns a mesh that was deleted: every
\* mesh of the entry it pops is still registered.
C30_UndoSparesDeleted ==
    [][history'.handler = "undo"
          => \A mesh \in DOMAIN pose \ Range(meshMap) : mesh \notin C30_Undone /\ pose'[mesh] = pose[mesh]]_vars

\* ---------------------------------------------------------------- C26
\* The step in which an import call resumes after its parse and registers
\* its records.
C26_Completes == \E j \in DOMAIN jobs : jobs[j].pc = "parse" /\ jobs'[j].pc = "resolved"

\* C26: the completion of an import registers the new records and leaves
\* the selection, lastSelectedId, the mode and the drag as they are, and
\* dispatches no 'selectionchange', whatever they are at that moment.
C26_ImportKeepsSelection ==
    [][C26_Completes =>
          /\ Len(meshMap') > Len(meshMap)
          /\ selectedMeshes' = selectedMeshes
          /\ lastSelectedId' = lastSelectedId
          /\ \A i \in DOMAIN dispatched' : dispatched'[i].type # "selectionchange"]_vars

\* An import has completed during a drag of two selected meshes.
C26_Witness ==
    /\ history.handler = "importModel"
    /\ tm.isDragging
    /\ selectedMeshes = {1, 2}
    /\ lastSelectedId = 2
    /\ Len(meshMap) > NBody

\* ---------------------------------------------------------------- C31
\* The node handed to #cloneAndSplitMesh.
C31_Child == Child(1, <<"A">>, geometry, material, Compose(IdentityPose))

\* The node has several materials and no bucket gives a part with vertices.
C31_NoUsablePart ==
    /\ C20_MultiMaterial
    /\ splitClones(C31_Child, workingGeometry(C31_Child),
                   rangesByMaterial(groupsOf(C31_Child), material.items, <<>>), IdentityPose) = <<>>

\* C31: when the buckets of a multi-material node give no usable part,
\* #cloneAndSplitMesh returns one record with the whole geometry of the
\* node and one material, the normalized first material, not an array.
C31_FallbackIsSingleMaterial ==
    (built # None /\ C31_NoUsablePart)
        => /\ Len(built.clones) = 1
           /\ positionCount(built.clones[1].geometry) = positionCount(geometry)
           /\ ~built.clones[1].material.array
           /\ built.clones[1].material.items
                  = sanitizeMaterial([array |-> FALSE, items |-> <<cloneSingleMaterial(material.items[1])>>],
                                     ensureGeometryBounds(cloneGeometry(geometry))).material.items

\* ---------------------------------------------------------------- C32
\* The alphaTest of the material is clamped to 0: it is no number, not
\* finite, or not above 0.
C32_Unmasked(m) == m.alphaTest.kind # "finite" \/ m.alphaTest.v <= 0

\* The flags of a material `out` that came out of sanitization as `in` went
\* in; the opacity compared is the clamped one, which `out` holds.
C32_Derived(in, out) ==
    /\ out.transparent = (in.transparent \/ out.opacity.v < Unit \/ "alphaMap" \in in.textures)
    /\ out.blending = (IF out.transparent THEN "NormalBlending" ELSE "NoBlending")
    /\ out.depthWrite = ~out.transparent
    /\ out.userData.alphaMode = Some(IF out.transparent THEN "BLEND" ELSE "OPAQUE")

\* C32: a material whose clamped alphaTest is 0 comes out of
\* #sanitizeMaterial with transparent = (transparent flag or opacity < 1 or
\* alpha map), normal blending when transparent and none otherwise,
\* depthWrite = not transparent, and alphaMode 'BLEND' when transparent and
\* 'OPAQUE' otherwise.
C32_UnmaskedFlags ==
    (built # None /\ built.op = "sanitizeMaterial" /\ built.material # None)
    => \A i \in DOMAIN built.material.items :
           (built.material.items[i].isMaterial /\ C32_Unmasked(built.material.items[i]))
           => C32_Derived(built.material.items[i], material.items[i])

\* A material without alpha test, transparent flag and alpha map, of opacity
\* one half, was sanitized: it is blended and writes no depth.
C32_Witness ==
    /\ built # None
    /\ built.op = "sanitizeMaterial"
    /\ built.material # None
    /\ built.material.items[1].isMaterial
    /\ built.material.items[1].alphaTest = Undefined
    /\ built.material.items[1].opacity = Num(1)
    /\ ~built.material.items[1].transparent
    /\ "alphaMap" \notin built.material.items[1].textures
    /\ material.items[1].transparent
    /\ ~material.items[1].depthWrite

\* ---------------------------------------------------------------- C33
\* C33: #sanitizeMaterial strips the light map of a material only when the
\* geometry has neither uv nor uv2; with a uv attribute the light map is
\* kept and the geometry comes out with a uv2 attribute.
C33_LightMapNeedsUv ==
    (built # None /\ built.op = "sanitizeMaterial" /\ built.material # None /\ built.geometry # None)
    => \A i \in DOMAIN built.material.items :
           (built.material.items[i].isMaterial /\ "lightMap" \in built.material.items[i].textures)
           => /\ "lightMap" \notin material.items[i].textures
                    => (~hasAttribute(built.geometry, "uv") /\ ~hasAttribute(built.geometry, "uv2"))
              /\ hasAttribute(built.geometry, "uv")
                    => ("lightMap" \in material.items[i].textures /\ hasAttribute(geometry, "uv2"))

\* ---------------------------------------------------------------- C34
\* C34: a commit of the inspector in scale mode with several meshes
\* selected changes only the axes in which a value stands: an axis whose
\* input is blank, because the meshes differ in it, and into which nothing
\* was typed keeps the scale each mesh had on that axis.
C34_BlankAxisKept ==
    [][(history'.handler = "commitChanges" /\ ui.inspector.mode = "scale"
           /\ Cardinality(ui.inspector.currentSelection) > 1)
        => \E axis \in 1 .. 3 : \E text \in Texts("scale") :
              /\ \A mesh \in ui.inspector.currentSelection :
                     pose'[mesh].s = V(parse(C21_Typed(axis, text)[1]), parse(C21_Typed(axis, text)[2]))
              /\ \A blank \in (1 .. 2) \ {axis} :
                     ui.inspector.inputs[blank] = Empty
                         => \A mesh \in ui.inspector.currentSelection : pose'[mesh].s[blank] = pose[mesh].s[blank]]_vars

\* ---------------------------------------------------------------- C35
\* C35: after a selection change to exactly one mesh while no drag is in
\* progress the anchor stands at the world position of that mesh and has
\* the scale (1, 1, 1), and it has the orientation of the mesh where the
\* mesh has one (its quaternion is a unit quaternion and its world matrix
\* decomposes).
C35_AnchorOnSingleMesh ==
    (history.handler = "updateAnchorFromSelection" /\ ~tm.isDragging /\ Cardinality(tm.currentSelection) = 1)
    => \A mesh \in tm.currentSelection :
           /\ tm.anchor.p = pose[mesh].p
           /\ tm.anchor.s = V(QOne, QOne)
           /\ Placeable(World, {mesh}) => tm.anchor.r = pose[mesh].r

\* The selection has changed to one mesh that a drag of the gizmo had
\* moved, turned or scaled, the anchor having been left scaled or turned.
C35_Witness ==
    /\ history.handler = "updateAnchorFromSelection"
    /\ ~tm.isDragging
    /\ history.moves = 2
    /\ \E mesh \in Bodies :
           /\ tm.currentSelection = {mesh}
           /\ pose[mesh] # InitialPose(mesh)
           /\ pose[mesh].s # V(QOne, QOne)
           /\ pose[mesh].r # Identity
           /\ Placeable(World, {mesh})

\* ---------------------------------------------------------------- C36
\* The weight of a selected mesh: the volume of its world bounding box, and
\* 10^-6 for a smaller volume.
C36_Weight(mesh) ==
    LET size == boxSize(World, mesh)
        volume == QMul(QMul(size[1], size[2]), size[3])
    IN IF QLt(volume, Q(1, 0, 1000000)) THEN Q(1, 0, 1000000) ELSE volume

\* The sums of the weights and of the weighted box centres of the meshes.
RECURSIVE C36_Sums(_)
C36_Sums(meshes) ==
    IF meshes = {} THEN [weight |-> QZero, centre |-> V(QZero, QZero)]
    ELSE LET mesh == CHOOSE m \in meshes : TRUE
             rest == C36_Sums(meshes \ {mesh})
         IN [weight |-> QAdd(rest.weight, C36_Weight(mesh)),
             centre |-> VAdd(rest.centre, VScale(pose[mesh].p, C36_Weight(mesh)))]

\* C36: while no drag is in progress, an anchor placed on two or more
\* meshes (by a selection change, and again by every commit of the
\* inspector) stands at the centroid of the centres of their world bounding
\* boxes weighted by max(volume, 10^-6), the weights and their sum being
\* positive, and has the identity orientation and the scale (1, 1, 1).
C36_AnchorAtWeightedCentroid ==
    (~tm.isDragging /\ Cardinality(tm.currentSelection) >= 2)
    => /\ \A mesh \in tm.currentSelection : QLt(QZero, C36_Weight(mesh))
       /\ QLt(QZero, C36_Sums(tm.currentSelection).weight)
       /\ VScale(tm.anchor.p, C36_Sums(tm.currentSelection).weight) = C36_Sums(tm.currentSelection).centre
       /\ tm.anchor.r = Identity
       /\ tm.anchor.s = V(QOne, QOne)

\* The selection has changed to two meshes whose boxes differ in volume,
\* after a commit of the inspector had scaled one of them.
C36_Witness ==
    /\ history.handler = "selectFromList"
    /\ history.moves > 0
    /\ ~tm.isDragging
    /\ tm.currentSelection = {1, 2}
    /\ C36_Weight(1) # C36_Weight(2)
    /\ pose[1].s # SessionPose(1).s
    /\ tm.anchor.p # pose[1].p
    /\ tm.anchor.p # pose[2].p

\* ---------------------------------------------------------------- C37
\* The node of the parsed scene graph that record k of the scene was cut
\* from.
C37_Node(k) == traverse(jobs[im.scene[k].import].outcome[1].root)[C16_Visit(im.scene[k].import, im.scene[k].node)]

\* The records cut from the node of record k, and those of its import call.
C37_Siblings(k) == {i \in DOMAIN im.scene : im.scene[i].import = im.scene[k].import /\ im.scene[i].node = im.scene[k].node}

C37_OfCall(k) == {i \in DOMAIN im.scene : im.scene[i].import = im.scene[k].import}

\* C37: a record cut from a named node that gave several records is named
\* "{name}_part{i}", i being its place among the records of the node; the
\* only record of a named node has the name of the node; a record cut from
\* an unnamed node is named "{base name of the file}_{n}", n being its place
\* among the records of its import call, so no two records of unnamed nodes
\* of one call share a name.
C37_RecordNames ==
    \A k \in DOMAIN im.scene :
        /\ (C37_Node(k).name # <<>> /\ Cardinality(C37_Siblings(k)) > 1)
              => im.scene[k].name
                     = C37_Node(k).name \o <<"_part", ToString(Cardinality({i \in C37_Siblings(k) : i <= k}))>>
        /\ (C37_Node(k).name # <<>> /\ Cardinality(C37_Siblings(k)) = 1)
              => im.scene[k].name = C37_Node(k).name
        /\ C37_Node(k).name = <<>>
              => /\ im.scene[k].name
                        = baseNameOf(jobs[im.scene[k].import].file.name)
                              \o <<"_", ToString(Cardinality({i \in C37_OfCall(k) : i <= k}))>>
                 /\ \A i \in C37_OfCall(k) :
                        (i # k /\ C37_Node(i).name = <<>>) => im.scene[i].name # im.scene[k].name

\* The scene holds the records of a named node of two parts, of a named
\* node of one part, of an unnamed node behind them, and those of a file
\* whose nodes are all unnamed, one of them of two parts.
C37_Witness ==
    /\ \E k \in DOMAIN im.scene : C37_Node(k).name # <<>> /\ Cardinality(C37_Siblings(k)) = 2
    /\ \E k \in DOMAIN im.scene : C37_Node(k).name # <<>> /\ Cardinality(C37_Siblings(k)) = 1
    /\ \E k \in DOMAIN im.scene :
          /\ C37_Node(k).name = <<>>
          /\ Cardinality(C37_Siblings(k)) = 2
          /\ Cardinality({i \in C37_OfCall(k) : C37_Node(i).name = <<>>}) = 3

\* ---------------------------------------------------------------- C38
\* Item i of the material handed to #cloneMaterial was a Phong or Lambert
\* material.
C38_Legacy(i) == built.material.items[i].type \in {"MeshPhongMaterial", "MeshLambertMaterial"}

\* 1 - min(shininess / 100, 1), the shininess being k / Unit hundreds: 0 from
\* 100 on, and 1/2 for 50.
C38_Roughness(k) == IF k >= Unit THEN 0 ELSE Unit - k

\* C38: the copy #cloneMaterial makes of a Phong or Lambert material has no
\* glow (emissive color black, no emissive map, emissive intensity 0), the
\* metalness 0 when the source has none, and, when the source has a
\* shininess and no roughness, the roughness 1 - min(shininess / 100, 1):
\* 1/2 for the shininess 50, 0 from 100 on.
C38_LegacyConversion ==
    (built # None /\ built.op = "cloneMaterial" /\ built.material # None)
        => \A i \in DOMAIN built.material.items :
               C38_Legacy(i)
                   => /\ material.items[i].type = "MeshStandardMaterial"
                      /\ material.items[i].emissive = "000000"
                      /\ "emissiveMap" \notin material.items[i].textures
                      /\ material.items[i].emissiveIntensity = Num(0)
                      /\ built.material.items[i].metalness = Undefined => material.items[i].metalness = Num(0)
                      /\ (built.material.items[i].roughness = Undefined /\ built.material.items[i].shininess.kind = "finite")
                            => /\ material.items[i].roughness = Num(C38_Roughness(built.material.items[i].shininess.v))
                               /\ 2 * built.material.items[i].shininess.v = Unit => 2 * material.items[i].roughness.v = Unit
                               /\ built.material.items[i].shininess.v >= Unit => material.items[i].roughness.v = 0

\* A glowing Phong material of shininess 50 with an emissive map and without
\* roughness and metalness has been converted.
C38_Witness ==
    /\ built # None /\ built.op = "cloneMaterial" /\ built.material # None
    /\ C38_Legacy(1)
    /\ built.material.items[1].roughness = Undefined
    /\ built.material.items[1].metalness = Undefined
    /\ 2 * built.material.items[1].shininess.v = Unit
    /\ built.material.items[1].emissive = "ffffff"
    /\ "emissiveMap" \in built.material.items[1].textures
    /\ 2 * material.items[1].roughness.v = Unit

\* ---------------------------------------------------------------- C39
\* Call j has gone through #parseByExtension as a glTF / GLB file.
C39_ParsedAsGltf(j) ==
    /\ jobs[j].pc \in {"parse", "resolved", "rejected"}
    /\ jobs[j].arrayBuffer
    /\ jobs[j].attempts # <<>>
    /\ getExtension(jobs[j].file.name)[1] \in {<<"g", "l", "t", "f">>, <<"g", "l", "b">>}

\* The buffer of call j holds the signature where it is looked for: in the
\* text of a .gltf, in a binary container otherwise.
C39_Signed(j) ==
    /\ jobs[j].file.buffer.signature
    /\ getExtension(jobs[j].file.name)[1] = <<"g", "l", "b">> => jobs[j].file.buffer.format = "glb"

\* C39: the manager constructs at most one DRACOLoader; it has none until
\* a glTF / GLB buffer holding the signature has been parsed, whatever else
\* was imported, and once such a buffer has been parsed the GLTFLoader works
\* with that first instance.
C39_OneLazyDecompressor ==
    /\ im.dracoLoader \in {None, Some(1)}
    /\ im.gltfLoader.dracoLoader = im.dracoLoader
    /\ im.dracoLoader # None => \E j \in DOMAIN jobs : C39_ParsedAsGltf(j) /\ jobs[j].file.buffer.signature
    /\ \A j \in DOMAIN jobs : (C39_ParsedAsGltf(j) /\ C39_Signed(j)) => im.dracoLoader = Some(1)

\* Two files holding the signature have been parsed after one another.
C39_Witness ==
    /\ Len(jobs) = 2
    /\ \A j \in DOMAIN jobs : C39_ParsedAsGltf(j) /\ C39_Signed(j)
    /\ jobs[1].file # jobs[2].file
    /\ im.dracoLoader = Some(1)

=============================================================================
